---- MODULE Spec2Model ----
(***************************************************************************)
(* Model of the SautiDarasa client hooks.                                  *)
(*                                                                         *)
(* Part 1: useTranscriptionWebSocket (src/src/hooks/                       *)
(* useTranscriptionWebSocket.ts): the hook state, the refs, every socket   *)
(* that can still act on the hook (a superseded socket keeps its handlers  *)
(* and still delivers its events into the hook), the reconnect timers, and *)
(* what was transmitted on each socket.  Sockets and timers are objects    *)
(* without a name: wsRef holds the socket it references, the sockets that  *)
(* wsRef no longer references but that are not closed yet form a bag.      *)
(*                                                                         *)
(* Strings are sequences of tokens, so concatenation is \o.  The platform  *)
(* (WebSocket, setTimeout) is modelled by what the browser does: a socket  *)
(* that fails fires error and then close with code 1006 in one task, a     *)
(* close() on a socket that is still connecting fails the connection, a    *)
(* message is delivered only while the socket is open.                     *)
(***************************************************************************)
EXTENDS Integers, Sequences, FiniteSets, Bags, TLC

\* ------------------------------------------------------------------ bounds
MaxLive == 2             \* sockets that are not yet closed, at any one time
MaxTimers == 2           \* reconnect timers pending at any one time
MaxSent == 2             \* audio packets transmitted on one socket
MaxSettledLen == 4       \* tokens finalTranscript may reach
MaxArrayLen == 2         \* samples in an array handed to the encoder alone
MaxFrameLen == 2         \* samples in one frame posted by the worklet
MaxSamples == 3          \* samples buffered by the hook or in flight to it
MaxCommands == 2         \* commands in flight to the worklet
MaxOrphaned == 1         \* things of a kind alive that no ref holds
MaxAttempts == 6         \* disconnections in a row the Firebase hook counts
MaxNow == 2              \* values of Date.now()

\* ------------------------------------------------------- program constants
MAX_RECONNECT_ATTEMPTS == 5
NORMAL_CLOSURE == 1000

NoError == <<>>
ErrConnection == <<"WebSocket connection error">>
ErrReconnectFailed == <<"Failed to reconnect after multiple attempts">>
ErrEstablish == <<"Failed to establish WebSocket connection">>
ErrUnknown == <<"Unknown error">>
ErrSend == <<"Failed to send audio data">>

\* ------------------------------------------------------------- the platform
\* WebSocket.readyState
CONNECTING == "CONNECTING"
OPEN == "OPEN"
CLOSING == "CLOSING"
CLOSED == "CLOSED"

\* A close event: its code, and whether the connection failed (then the
\* browser fires error before close, and the code is 1006).
CloseEvents ==
    { [code |-> 1000, failed |-> FALSE],
      [code |-> 1001, failed |-> FALSE],
      [code |-> 1006, failed |-> TRUE] }

\* What is put on the wire of one socket while its connection lives.
StopMsg == [kind |-> "stop", payload |-> "stop"]
AudioMsg(p) == [kind |-> "audio", payload |-> p]

\* The audio packets the component hands to sendAudio.
Packets == {"p1"}

\* A ref that holds no socket (wsRef.current === null).
NullSocket == [readyState |-> "null", established |-> FALSE,
               sent |-> <<>>, closeCode |-> 0]

\* new WebSocket(url): connecting, nothing sent, close() not called.
NewSocket == [readyState |-> CONNECTING, established |-> FALSE,
              sent |-> <<>>, closeCode |-> 0]

\* ws.send(data) throws InvalidStateError on a socket that is still
\* connecting; on an open socket it transmits; on a closing or closed socket
\* the data is discarded.
WsSendThrows(sock) == sock.readyState = CONNECTING

WsSend(sock, data) ==
    IF sock.readyState = OPEN
    THEN [sock EXCEPT !.sent = Append(@, data)]
    ELSE sock

\* ws.close(code): no effect on a closing or closed socket; otherwise the
\* socket starts closing (a socket not yet established fails).
WsClose(sock, code) ==
    IF sock.readyState \in {CLOSING, CLOSED}
    THEN sock
    ELSE [sock EXCEPT !.readyState = CLOSING, !.closeCode = code]

\* A socket whose close event was delivered: the connection is gone, send()
\* and close() have no effect on it and it delivers no further event.
ClosedSocket == [readyState |-> CLOSED, established |-> FALSE,
                 sent |-> <<>>, closeCode |-> 0]

\* The close events a socket can deliver: a connection that was never
\* established can only fail; an established one may close cleanly with the
\* peer's code or fail.
PossibleCloseEvents(sock) ==
    IF sock.established
    THEN CloseEvents
    ELSE { ev \in CloseEvents : ev.failed }

\* ------------------------------------------------------------ inbound data
\* Strings are sequences of tokens.
Space == <<" ">>
Empty == <<>>

\* The transcript texts and error texts the endpoint sends.
Texts == { <<"Hello">> }
ErrorTexts == { Empty, <<"quota">> }

\* An optional field of a parsed message: absent, or present with a value.
Absent == [present |-> FALSE, value |-> Empty]
Present(v) == [present |-> TRUE, value |-> v]

\* event.data: text that JSON.parse rejects, or a parsed message.  isFinal is
\* "true", "false" or "absent"; type is one of the two known types or another.
Unparseable ==
    [parses |-> FALSE, type |-> "none", transcript |-> Absent,
     isFinal |-> "absent", message |-> Absent]

InboundData ==
    {Unparseable}
    \cup { [parses |-> TRUE, type |-> "transcription", transcript |-> t,
            isFinal |-> f, message |-> Absent] :
              t \in {Absent} \cup { Present(x) : x \in Texts },
              f \in {"true", "false", "absent"} }
    \cup { [parses |-> TRUE, type |-> "error", transcript |-> Absent,
            isFinal |-> "absent", message |-> m] :
              m \in {Absent} \cup { Present(x) : x \in ErrorTexts } }
    \cup { [parses |-> TRUE, type |-> "other", transcript |-> Absent,
            isFinal |-> "absent", message |-> Absent] }

\* String concatenation with an optional field: undefined becomes the text
\* "undefined".
JsToString(field) == IF field.present THEN field.value ELSE <<"undefined">>

\* field || fallback: undefined and the empty string are falsy.
JsOr(field, fallback) ==
    IF field.present /\ field.value # Empty THEN field.value ELSE fallback

\* Mutants of AppendFinal: the separating space is forgotten; the settled
\* text is replaced instead of extended.
AppendFinalNoSpace(settled, transcript) == settled \o JsToString(transcript)

ReplaceFinal(settled, transcript) == JsToString(transcript) \o Space

\* prev.finalTranscript + message.transcript + ' '
AppendFinal(settled, transcript) == settled \o JsToString(transcript) \o Space

\* Mutant of InterimText: the preview is extended instead of replaced.
InterimAppended(preview, transcript) == preview \o JsOr(transcript, Empty)

\* message.transcript || ''
InterimText(preview, transcript) == JsOr(transcript, Empty)

\* Mutant of ErrorText: the fallback text is forgotten.
ErrorTextNoFallback(message) == message.value

\* message.message || 'Unknown error'
ErrorText(message) == JsOr(message, ErrUnknown)

\* Mutant of OnMessageState: data that cannot be parsed, or that has no known
\* type, is reported as an error.
OnMessageStateStrict(prev, data) ==
    IF data.parses /\ data.type \in {"transcription", "error"}
    THEN IF data.type = "transcription"
         THEN IF data.isFinal = "true"
              THEN [prev EXCEPT
                      !.finalTranscript = AppendFinal(prev.finalTranscript,
                                                      data.transcript),
                      !.interimTranscript = Empty]
              ELSE [prev EXCEPT
                      !.interimTranscript =
                          InterimText(prev.interimTranscript, data.transcript)]
         ELSE [prev EXCEPT !.error = ErrorText(data.message)]
    ELSE [prev EXCEPT !.error = ErrUnknown]

\* ws.onmessage: the hook state after event.data was handled.
OnMessageState(prev, data) ==
    IF ~data.parses
    THEN prev
    ELSE IF data.type = "transcription"
    THEN IF data.isFinal = "true"
         THEN [prev EXCEPT
                 !.finalTranscript = AppendFinal(prev.finalTranscript,
                                                 data.transcript),
                 !.interimTranscript = Empty]
         ELSE [prev EXCEPT
                 !.interimTranscript = InterimText(prev.interimTranscript,
                                                   data.transcript)]
    ELSE IF data.type = "error"
    THEN [prev EXCEPT !.error = ErrorText(data.message)]
    ELSE prev

\* Mutant of ClearState: only the settled text is reset.
ClearStateFinalOnly(prev) == [prev EXCEPT !.finalTranscript = Empty]

\* clearTranscripts
ClearState(prev) == [prev EXCEPT !.interimTranscript = Empty,
                                 !.finalTranscript = Empty]

VARIABLES
    state,                  \* useState<TranscriptionState>
    wsRef,                  \* wsRef.current: NullSocket or the socket
    superseded,             \* bag of the sockets wsRef dropped, not yet closed
    reconnectTimeoutRef,    \* reconnectTimeoutRef.current: "null", or the
                            \* handle of a "pending" or of a "fired" timer
    strayTimers,            \* pending timers whose handle the ref lost
    reconnectAttemptsRef,   \* reconnectAttemptsRef.current
    mounted,                \* the component using the hook is mounted
    urlValid                \* new WebSocket(url) accepts the configured URL

wsVars == <<state, wsRef, superseded, reconnectTimeoutRef, strayTimers,
            reconnectAttemptsRef, mounted, urlValid>>

\* ======================================================================
\* Part 2: useAudioRecorder (src/src/hooks/useAudioRecorder.ts), the encoder
\* ======================================================================
\* A sample is a float.  The samples of the model are the multiples of
\* 1/SampleUnit, a power of two as in a float: the integer n stands for the
\* float n/SampleUnit, so SampleUnit stands for 1.0.  The products and the
\* truncation below are then exact, as they are in the code, where a float32
\* times 32767 or 32768 is exact in double precision.
SampleUnit == 65536

\* 0x8000 and 0x7FFF
NegativeScale == 32768
PositiveScale == 32767

\* The samples handed to the encoder: beyond -1 and 1 (an infinity behaves
\* as these do), at -1, 0 and 1, next to them, and values in between.
InputSamples ==
    { -2 * SampleUnit, -SampleUnit - 1, -SampleUnit, -SampleUnit + 1,
      -32769, -3, -1, 0, 1, 2, 3, 32768, 32769,
      SampleUnit - 1, SampleUnit, SampleUnit + 1, 2 * SampleUnit }

Min(a, b) == IF a <= b THEN a ELSE b

Max(a, b) == IF a >= b THEN a ELSE b

\* The integer part of a / b, for b > 0: the fraction is dropped (toward 0),
\* as the conversion of a number to an integer element does.
Truncate(a, b) ==
    IF a >= 0 \/ a % b = 0 THEN a \div b ELSE (a \div b) + 1

\* A store into an Int16Array element: the integer modulo 2^16, read as a
\* signed 16-bit value.
ToInt16(n) == ((n + 32768) % 65536) - 32768

\* Math.max(-1, Math.min(1, x))
Clamp(x) == Max(-SampleUnit, Min(SampleUnit, x))

\* Mutant of EncodeSample: both signs are scaled by 0x7FFF.
EncodeSampleOneScale(x) ==
    ToInt16(Truncate(Clamp(x) * PositiveScale, SampleUnit))

\* One turn of the loop of floatTo16BitPCM:
\*   s = Math.max(-1, Math.min(1, x)); int16Array[i] = s < 0 ? s * 0x8000
\*                                                         : s * 0x7FFF
EncodeSample(x) ==
    LET s == Clamp(x)
    IN  ToInt16(IF s < 0
                THEN Truncate(s * NegativeScale, SampleUnit)
                ELSE Truncate(s * PositiveScale, SampleUnit))

\* floatTo16BitPCM: an Int16Array of the length of the input, element i
\* from element i.
floatTo16BitPCM(float32Array) ==
    [i \in 1..Len(float32Array) |-> EncodeSample(float32Array[i])]

VARIABLES
    encoderInput,           \* the Float32Array handed to floatTo16BitPCM
    encoderOutput,          \* the Int16Array it returned
    encoderDone             \* floatTo16BitPCM has returned

encoderVars == <<encoderInput, encoderOutput, encoderDone>>

\* The encoder is not exercised.
EncoderIdle ==
    /\ encoderInput = <<>>
    /\ encoderOutput = <<>>
    /\ encoderDone = FALSE

\* ======================================================================
\* Part 3: useAudioRecorder, the recorder and its worklet
\* (src/src/hooks/useAudioRecorder.ts lines 1-260, src/unnamed/part_000)
\* ======================================================================
\* The samples of the frames the worklet captures: 1.0 and -1.0.
FrameSamples == { SampleUnit, -SampleUnit }

\* The channel data process() is given while the microphone delivers audio,
\* never empty; the worklet posts a copy: channelData.slice(0).
Frames == UNION { [1..n -> FrameSamples] : n \in 1..MaxFrameLen }

\* inputs[0] without a channel: input[0] is undefined.  It is what process()
\* is given when no source connected to the node is actively processing, as
\* a stream source is not once its track has ended.
NoInput == <<>>

\* AudioRecorderState.error: null, the message of the rejected getUserMedia,
\* or the message of the error startRecording caught after that.
NoRecorderError == "null"
ErrPermission == "Permission denied"
ErrStart == "Failed to start recording"

\* The commands sent to the worklet.
Commands == {"start", "stop", "pause", "resume"}

\* What a handler does to the world outside the hook, in the order in which
\* it does it: a command posted to the worklet, clearInterval, a packet
\* handed to a callback, the teardown of the audio graph and of the tracks.
Effect(kind) == [kind |-> kind, data |-> <<>>]
PacketEffect(callback, packet) == [kind |-> callback, data |-> packet]

\* Number of samples in a sequence of frames:
\*   audioChunksRef.current.reduce((sum, chunk) => sum + chunk.length, 0)
RECURSIVE TotalLength(_)
TotalLength(chunks) ==
    IF chunks = <<>> THEN 0
    ELSE Len(Head(chunks)) + TotalLength(Tail(chunks))

\* Mutant of Combine: the frames are laid out last first.
RECURSIVE CombineReversed(_)
CombineReversed(chunks) ==
    IF chunks = <<>> THEN <<>>
    ELSE CombineReversed(Tail(chunks)) \o Head(chunks)

\* combinedFloat32: every chunk copied at the offset where the chunk before
\* it ended.
RECURSIVE Combine(_)
Combine(chunks) ==
    IF chunks = <<>> THEN <<>>
    ELSE Head(chunks) \o Combine(Tail(chunks))

VARIABLES
    recorderState,          \* useState<AudioRecorderState>
    audioContextRef,        \* audioContextRef.current: "null" or "open"
    workletNodeRef,         \* workletNodeRef.current: "null" or "node"
    streamRef,              \* streamRef.current: "null", or the stream,
                            \* whose track is "live", "ended" (the device
                            \* went away) or "stopped" (track.stop())
    audioChunksRef,         \* audioChunksRef.current: the buffered frames
    chunkIntervalRef,       \* chunkIntervalRef.current: "null" or "set"
    isRecordingRef,         \* isRecordingRef.current
    isPausedRef,            \* isPausedRef.current
    startPhase,             \* where a startRecording() call is suspended:
                            \* "none", "permission", "module", or
                            \* "moduleClosed" (its context was closed since)
    processor,              \* the AudioRecorderProcessor of the worklet node
    commands,               \* commands posted to the processor, in flight
    inFlight,               \* frames posted by the processor, in flight
    hasOnAudioData,         \* the onAudioData option is given
    hasOnDataAvailable,     \* the onDataAvailable option is given
    effects,                \* what the last handler did to the outside
    recorderMounted,        \* the component using the hook is mounted
    orphaned,               \* what is alive and no ref holds any more
    stoppedSinceStart       \* "no", or stopRecording() returned and neither
                            \* startRecording() nor requestPermission() was
                            \* called since: "duringStart" when it ran while
                            \* a startRecording() was suspended, else
                            \* "atRest"

recorderVars ==
    <<recorderState, audioContextRef, workletNodeRef, streamRef,
      audioChunksRef, chunkIntervalRef, isRecordingRef, isPausedRef,
      startPhase, processor, commands, inFlight, hasOnAudioData,
      hasOnDataAvailable, effects, recorderMounted, orphaned,
      stoppedSinceStart>>

\* No worklet node was created.  Of a processor: it exists, its context
\* renders (running), its source stream delivers audio (hasInput), and its
\* own two flags.
NoProcessor == [exists |-> FALSE, running |-> FALSE, hasInput |-> FALSE,
                isRecording |-> FALSE, isPaused |-> FALSE]

\* Nothing is alive that the refs do not hold: no open AudioContext, no
\* connected worklet node, no running interval, no live stream.
NoOrphans == [contexts |-> 0, nodes |-> 0, intervals |-> 0, streams |-> 0]

\* The hook after its first render, with the given options.
RecorderInit(audioData, dataAvailable) ==
    /\ recorderState = [isRecording |-> FALSE, isPaused |-> FALSE,
                        error |-> NoRecorderError,
                        permissionGranted |-> "null"]
    /\ audioContextRef = "null"
    /\ workletNodeRef = "null"
    /\ streamRef = "null"
    /\ audioChunksRef = <<>>
    /\ chunkIntervalRef = "null"
    /\ isRecordingRef = FALSE
    /\ isPausedRef = FALSE
    /\ startPhase = "none"
    /\ processor = NoProcessor
    /\ commands = <<>>
    /\ inFlight = <<>>
    /\ hasOnAudioData = audioData
    /\ hasOnDataAvailable = dataAvailable
    /\ effects = <<>>
    /\ recorderMounted = TRUE
    /\ orphaned = NoOrphans
    /\ stoppedSinceStart = "no"

\* The hook is mounted and never used.
RecorderUnused == RecorderInit(TRUE, FALSE)

\* ======================================================================
\* Part 4: useAudioRecorder, the MediaRecorder variant
\* (src/src/hooks/useAudioRecorder.ts lines 264-435)
\* ======================================================================
\* const mimeTypesToTry
mimeTypesToTry ==
    <<"audio/webm;codecs=opus", "audio/ogg;codecs=opus",
      "audio/webm", "audio/ogg">>

\* The values of the mimeType option: its default, and a type that is not in
\* the list.
MimeTypeOptions == {"audio/webm", "audio/mp4"}

\* The types a platform may support.
PlatformTypes ==
    { mimeTypesToTry[i] : i \in 1..Len(mimeTypesToTry) } \cup MimeTypeOptions

\* AudioRecorderState.error of this variant: the message of the error thrown
\* on the way ('MediaRecorder not supported in this browser' is thrown by the
\* hook, the others by the platform), or the text set by onerror.
ErrNoMediaRecorder == "MediaRecorder not supported in this browser"
ErrTypeNotSupported == "NotSupportedError: mimeType is not supported"
ErrCannotStart == "NotSupportedError: the stream is inactive"
ErrRecording == "Recording error occurred"

\* mediaRecorderRef.current === null
NoMediaRecorder == [exists |-> FALSE, state |-> "inactive",
                    mimeType |-> "", stopPending |-> FALSE]

\* new MediaRecorder(stream, { mimeType })
NewMediaRecorder(type) == [exists |-> TRUE, state |-> "inactive",
                           mimeType |-> type, stopPending |-> FALSE]

\* The recorder is stopped, by stop(), by an error or because its tracks
\* ended: it is inactive and its stop event is on its way.
Inactivated(recorder) ==
    IF recorder.exists /\ recorder.state # "inactive"
    THEN [recorder EXCEPT !.state = "inactive", !.stopPending = TRUE]
    ELSE recorder

\* Mutant of FirstSupported: the last supported entry is taken.
RECURSIVE LastSupported(_, _, _)
LastSupported(list, supported, fallback) ==
    IF list = <<>> THEN fallback
    ELSE LastSupported(Tail(list), supported,
                       IF Head(list) \in supported THEN Head(list)
                                                   ELSE fallback)

\* let supportedMimeType = mimeType;
\* for (const mime of mimeTypesToTry)
\*   if (MediaRecorder.isTypeSupported(mime)) { supportedMimeType = mime; break }
RECURSIVE FirstSupported(_, _, _)
FirstSupported(list, supported, fallback) ==
    IF list = <<>> THEN fallback
    ELSE IF Head(list) \in supported THEN Head(list)
    ELSE FirstSupported(Tail(list), supported, fallback)

\* The types the loop passes to isTypeSupported, in its order: up to the
\* first supported one.
RECURSIVE Queried(_, _)
Queried(list, supported) ==
    IF list = <<>> THEN <<>>
    ELSE IF Head(list) \in supported THEN <<Head(list)>>
    ELSE <<Head(list)>> \o Queried(Tail(list), supported)

VARIABLES
    legacyState,            \* useState<AudioRecorderState> of this variant
    mediaRecorderRef,       \* mediaRecorderRef.current
    legacyStreamRef,        \* streamRef.current: "null", or the stream, whose
                            \* track is "live", "ended" or "stopped"
    legacyPhase,            \* where startRecording() is suspended: "none",
                            \* "permission", or "permissionOnly" for a
                            \* requestPermission() of the component
    typesQueried,           \* what the last startRecording() passed to
                            \* isTypeSupported, in order
    lastData,               \* what the last dataavailable event led to
    supportedTypes,         \* the types MediaRecorder.isTypeSupported accepts
    mimeType,               \* the mimeType option
    hasMediaRecorder,       \* window.MediaRecorder is defined
    legacyMounted           \* the component using the hook is mounted

legacyVars ==
    <<legacyState, mediaRecorderRef, legacyStreamRef, legacyPhase,
      typesQueried, lastData, supportedTypes, mimeType, hasMediaRecorder,
      legacyMounted>>

\* The hook of this variant after its first render, on a given platform.
LegacyInit(supported, option, defined) ==
    /\ legacyState = [isRecording |-> FALSE, isPaused |-> FALSE,
                      error |-> NoRecorderError,
                      permissionGranted |-> "null"]
    /\ mediaRecorderRef = NoMediaRecorder
    /\ legacyStreamRef = "null"
    /\ legacyPhase = "none"
    /\ typesQueried = <<>>
    /\ lastData = "none"
    /\ supportedTypes = supported
    /\ mimeType = option
    /\ hasMediaRecorder = defined
    /\ legacyMounted = TRUE

\* The variant is not used.
LegacyUnused == LegacyInit({}, "audio/webm", FALSE)

\* ======================================================================
\* Part 5: useFirebaseConnection (src/unnamed/part_001)
\* ======================================================================
\* Math.pow(2, n)
RECURSIVE Pow2(_)
Pow2(n) == IF n = 0 THEN 1 ELSE 2 * Pow2(n - 1)

\* Mutant of BackoffDelay: the delay is not capped.
BackoffUncapped(attempts) == 1000 * Pow2(attempts)

\* Math.min(1000 * Math.pow(2, prev.reconnectAttempts), 30000), in ms
BackoffDelay(attempts) == Min(1000 * Pow2(attempts), 30000)

\* Mutant of ClearTimeout: the timer is left pending.
ClearTimeoutSkipped(timer, pending) == pending

\* clearTimeout(reconnectTimer): the number of pending timers after it.  A
\* timer that fired already, or no timer, is not an error.
ClearTimeout(timer, pending) ==
    IF timer = "pending" THEN pending - 1 ELSE pending

VARIABLES
    connectionState,        \* useState<ConnectionState>
    reconnectTimer,         \* the timer the variable reconnectTimer of the
                            \* effect holds: "null", "pending", "fired"
                            \* or "cleared"
    backoffTimerRef,        \* backoffTimerRef.current
    timersPending,          \* timers set by the hook that are pending
    hasOnReconnect,         \* the onReconnect argument is given
    subscribed,             \* the effect ran and its cleanup did not
    connectionEffects       \* what the last handler did to the outside

firebaseVars ==
    <<connectionState, reconnectTimer, backoffTimerRef, timersPending,
      hasOnReconnect, subscribed, connectionEffects>>

\* The hook after its first render and its effects, with or without the
\* onReconnect argument.
FirebaseInit(onReconnect) ==
    /\ connectionState = [isConnected |-> TRUE, isReconnecting |-> FALSE,
                          reconnectAttempts |-> 0,
                          lastDisconnectTime |-> "null"]
    /\ reconnectTimer = "null"
    /\ backoffTimerRef = "null"
    /\ timersPending = 0
    /\ hasOnReconnect = onReconnect
    /\ subscribed = TRUE
    /\ connectionEffects = <<>>

\* The hook is not used.
FirebaseUnused == FirebaseInit(FALSE)

vars ==
    <<wsVars, encoderVars, recorderVars, legacyVars, firebaseVars>>

IsLive(sock) == sock.readyState \in {CONNECTING, OPEN, CLOSING}

\* The sockets that can deliver an event: <<"current", sock>> for the one
\* in wsRef, <<"superseded", sock>> for one of the others.
LiveSockets ==
    (IF IsLive(wsRef) THEN {<<"current", wsRef>>} ELSE {})
    \cup { <<"superseded", sock>> : sock \in BagToSet(superseded) }

LiveCount ==
    BagCardinality(superseded) + (IF IsLive(wsRef) THEN 1 ELSE 0)

\* The reconnect timers that are pending.
PendingTimers ==
    strayTimers + (IF reconnectTimeoutRef = "pending" THEN 1 ELSE 0)

\* The bag of superseded sockets with one more socket (a closed socket can
\* do nothing more and is not kept).
Supersede(bag, sock) ==
    IF IsLive(sock) THEN bag (+) SetToBag({sock}) ELSE bag

\* wsRef.current?.readyState === WebSocket.OPEN
CurrentIsOpen == wsRef.readyState = OPEN

TransportInit ==
    /\ state = [interimTranscript |-> Empty, finalTranscript |-> Empty,
                isConnected |-> FALSE, error |-> NoError]
    /\ wsRef = NullSocket
    /\ superseded = EmptyBag
    /\ reconnectTimeoutRef = "null"
    /\ strayTimers = 0
    /\ reconnectAttemptsRef = 0
    /\ mounted = TRUE
    /\ urlValid \in BOOLEAN

\* The hook is mounted and never used.
TransportUnused == TransportInit /\ urlValid

Init ==
    /\ TransportInit
    /\ EncoderIdle
    /\ RecorderUnused
    /\ LegacyUnused
    /\ FirebaseUnused

\* ------------------------------------------------------------------ connect
\* The body of connect(): returns early when the current socket is open;
\* otherwise creates a socket and stores it in wsRef (the socket wsRef held
\* is not closed), or, when the constructor throws, records the error.
ConnectBody ==
    IF CurrentIsOpen
    THEN UNCHANGED <<state, wsRef, superseded>>
    ELSE IF urlValid
    THEN /\ wsRef' = NewSocket
         /\ superseded' = Supersede(superseded, wsRef)
         /\ UNCHANGED state
    ELSE /\ state' = [state EXCEPT !.error = ErrEstablish,
                                   !.isConnected = FALSE]
         /\ UNCHANGED <<wsRef, superseded>>

\* connect() stays within the bound on live sockets.
ConnectWithinBound ==
    CurrentIsOpen \/ ~urlValid \/ LiveCount < MaxLive

\* connect() called by the component.
Connect ==
    /\ mounted
    /\ ConnectWithinBound
    /\ ConnectBody
    /\ UNCHANGED <<reconnectTimeoutRef, strayTimers, reconnectAttemptsRef,
                   mounted, urlValid,
                   encoderVars, recorderVars,
                   legacyVars, firebaseVars>>

\* A reconnect timer fires: connectRef.current?.().  tracked tells whether
\* it is the timer whose handle reconnectTimeoutRef holds.
ReconnectTimerFires(tracked) ==
    /\ IF tracked
       THEN /\ reconnectTimeoutRef = "pending"
            /\ reconnectTimeoutRef' = "fired"
            /\ UNCHANGED strayTimers
       ELSE /\ strayTimers > 0
            /\ strayTimers' = strayTimers - 1
            /\ UNCHANGED reconnectTimeoutRef
    /\ ConnectWithinBound
    /\ ConnectBody
    /\ UNCHANGED <<reconnectAttemptsRef, mounted, urlValid,
                   encoderVars, recorderVars,
                   legacyVars, firebaseVars>>

\* ------------------------------------------------------- events of a socket
\* The refs after the socket `target` of LiveSockets became `sock`.
WsRefAfter(target, sock) ==
    IF target[1] = "current" THEN sock ELSE wsRef

SupersededAfter(target, sock) ==
    IF target[1] = "current"
    THEN superseded
    ELSE Supersede(superseded (-) SetToBag({target[2]}), sock)

\* ------------------------------------------------------------------- onopen
\* Mutant of AttemptsAfterOpen: the counter is not reset.
AttemptsKeptOnOpen(attempts) == attempts

\* reconnectAttemptsRef.current = 0
AttemptsAfterOpen(attempts) == 0

\* Mutant of OnOpenState: a new connection starts with an empty transcript.
OnOpenStateCleared(prev) ==
    [prev EXCEPT !.isConnected = TRUE, !.error = NoError,
                 !.interimTranscript = Empty, !.finalTranscript = Empty]

OnOpenState(prev) == [prev EXCEPT !.isConnected = TRUE, !.error = NoError]

\* The connection of a socket is established: ws.onopen.
SocketOpens(target) ==
    /\ target \in LiveSockets
    /\ target[2].readyState = CONNECTING
    /\ LET opened == [target[2] EXCEPT !.readyState = OPEN,
                                       !.established = TRUE]
       IN  /\ wsRef' = WsRefAfter(target, opened)
           /\ superseded' = SupersededAfter(target, opened)
    /\ reconnectAttemptsRef' = AttemptsAfterOpen(reconnectAttemptsRef)
    /\ state' = OnOpenState(state)
    /\ UNCHANGED <<reconnectTimeoutRef, strayTimers, mounted, urlValid,
                   encoderVars, recorderVars,
                   legacyVars, firebaseVars>>

\* --------------------------------------------------------- onerror, onclose
OnErrorState(prev) == [prev EXCEPT !.error = ErrConnection,
                                   !.isConnected = FALSE]

\* Mutants of ShouldReconnect: the bound is off by one; the close code is
\* not looked at.
ShouldReconnectOffByOne(code, attempts) ==
    code # NORMAL_CLOSURE /\ attempts <= MAX_RECONNECT_ATTEMPTS

ShouldReconnectAnyCode(code, attempts) == attempts < MAX_RECONNECT_ATTEMPTS

\* event.code !== 1000 && reconnectAttemptsRef.current < MAX_RECONNECT_ATTEMPTS
ShouldReconnect(code, attempts) ==
    code # NORMAL_CLOSURE /\ attempts < MAX_RECONNECT_ATTEMPTS

\* else if (reconnectAttemptsRef.current >= MAX_RECONNECT_ATTEMPTS)
AttemptsExhausted(attempts) == attempts >= MAX_RECONNECT_ATTEMPTS

\* ws.onclose: the hook state after a close event with this code.
OnCloseState(prev, code, attempts) ==
    IF ~ShouldReconnect(code, attempts) /\ AttemptsExhausted(attempts)
    THEN [prev EXCEPT !.isConnected = FALSE, !.error = ErrReconnectFailed]
    ELSE [prev EXCEPT !.isConnected = FALSE]

\* A socket is closed: the browser sets readyState to CLOSED, fires error
\* when the connection failed, then fires close.  A timer set by onclose
\* overwrites the handle in reconnectTimeoutRef.
SocketCloses(target, ev) ==
    /\ target \in LiveSockets
    /\ ev \in PossibleCloseEvents(target[2])
    /\ ShouldReconnect(ev.code, reconnectAttemptsRef)
          => PendingTimers < MaxTimers
    /\ wsRef' = WsRefAfter(target, ClosedSocket)
    /\ superseded' = SupersededAfter(target, ClosedSocket)
    /\ state' = OnCloseState(IF ev.failed THEN OnErrorState(state) ELSE state,
                             ev.code, reconnectAttemptsRef)
    /\ IF ShouldReconnect(ev.code, reconnectAttemptsRef)
       THEN /\ reconnectAttemptsRef' = reconnectAttemptsRef + 1
            /\ reconnectTimeoutRef' = "pending"
            /\ strayTimers' = PendingTimers
       ELSE UNCHANGED <<reconnectAttemptsRef, reconnectTimeoutRef,
                        strayTimers>>
    /\ UNCHANGED <<mounted, urlValid,
                   encoderVars, recorderVars,
                   legacyVars, firebaseVars>>

\* ---------------------------------------------------------------- onmessage
\* A socket delivers a message (the browser delivers messages only while the
\* socket is open).
SocketMessage(target, data) ==
    /\ target \in LiveSockets
    /\ target[2].readyState = OPEN
    /\ data \in InboundData
    /\ Len(OnMessageState(state, data).finalTranscript) <= MaxSettledLen
    /\ state' = OnMessageState(state, data)
    /\ UNCHANGED <<wsRef, superseded, reconnectTimeoutRef, strayTimers,
                   reconnectAttemptsRef, mounted, urlValid,
                   encoderVars, recorderVars,
                   legacyVars, firebaseVars>>

\* --------------------------------------------------------------- disconnect
\* Mutant of StopAndClose: the socket is closed before the stop message is
\* sent.
CloseThenStop(sock) ==
    LET closing == WsClose(sock, NORMAL_CLOSURE)
    IN  IF sock.readyState = OPEN THEN WsSend(closing, StopMsg) ELSE closing

\* if (readyState === OPEN) send(stop); then close(1000, 'Client disconnect')
StopAndClose(sock) ==
    WsClose(IF sock.readyState = OPEN THEN WsSend(sock, StopMsg) ELSE sock,
            NORMAL_CLOSURE)

\* The body of disconnect(): clearTimeout cancels the timer when it is still
\* pending; the socket is closed and dropped from wsRef.
DisconnectBody ==
    /\ reconnectTimeoutRef' = "null"
    /\ IF wsRef # NullSocket
       THEN /\ superseded' = Supersede(superseded, StopAndClose(wsRef))
            /\ wsRef' = NullSocket
       ELSE UNCHANGED <<superseded, wsRef>>
    /\ state' = [state EXCEPT !.isConnected = FALSE]
    /\ UNCHANGED strayTimers

\* disconnect() called by the component.
Disconnect ==
    /\ mounted
    /\ DisconnectBody
    /\ UNCHANGED <<reconnectAttemptsRef, mounted, urlValid,
                   encoderVars, recorderVars,
                   legacyVars, firebaseVars>>

\* The cleanup effect on unmount runs disconnect().
Unmount ==
    /\ mounted
    /\ mounted' = FALSE
    /\ DisconnectBody
    /\ UNCHANGED <<reconnectAttemptsRef, urlValid,
                   encoderVars, recorderVars,
                   legacyVars, firebaseVars>>

\* ---------------------------------------------------------------- sendAudio
\* Mutant of CanSend: only the presence of a socket is tested.
CanSendAnySocket(sock) == sock # NullSocket

\* wsRef.current?.readyState === WebSocket.OPEN, the test of sendAudio
CanSend(sock) == sock.readyState = OPEN

\* sendAudio(audioData) called by the component: behind the readyState test
\* the packet is sent, and a send that throws is caught and reported;
\* otherwise only a warning is logged.
SendAudio(p) ==
    /\ mounted
    /\ p \in Packets
    /\ Len(wsRef.sent) < MaxSent
    /\ IF CanSend(wsRef)
       THEN IF WsSendThrows(wsRef)
            THEN /\ state' = [state EXCEPT !.error = ErrSend]
                 /\ UNCHANGED wsRef
            ELSE /\ wsRef' = WsSend(wsRef, AudioMsg(p))
                 /\ UNCHANGED state
       ELSE UNCHANGED <<state, wsRef>>
    /\ UNCHANGED <<superseded, reconnectTimeoutRef, strayTimers,
                   reconnectAttemptsRef, mounted, urlValid,
                   encoderVars, recorderVars,
                   legacyVars, firebaseVars>>

\* ---------------------------------------------------------- clearTranscripts
ClearTranscripts ==
    /\ mounted
    /\ state' = ClearState(state)
    /\ UNCHANGED <<wsRef, superseded, reconnectTimeoutRef, strayTimers,
                   reconnectAttemptsRef, mounted, urlValid,
                   encoderVars, recorderVars,
                   legacyVars, firebaseVars>>

Next ==
    \/ Connect
    \/ \E tracked \in BOOLEAN : ReconnectTimerFires(tracked)
    \/ \E target \in LiveSockets : SocketOpens(target)
    \/ \E target \in LiveSockets : \E ev \in CloseEvents :
          SocketCloses(target, ev)
    \/ \E target \in LiveSockets : \E data \in InboundData :
          SocketMessage(target, data)
    \/ Disconnect
    \/ Unmount
    \/ \E p \in Packets : SendAudio(p)
    \/ ClearTranscripts

Spec == Init /\ [][Next]_vars

\* ======================================================================
\* The encoder alone
\* ======================================================================
\* The arrays handed to floatTo16BitPCM.
InputArrays ==
    UNION { [1..n -> InputSamples] : n \in 0..MaxArrayLen }

EncoderInit ==
    /\ encoderInput \in InputArrays
    /\ encoderOutput = <<>>
    /\ encoderDone = FALSE
    /\ TransportUnused
    /\ RecorderUnused
    /\ LegacyUnused
    /\ FirebaseUnused

\* One call of floatTo16BitPCM.
Convert ==
    /\ ~encoderDone
    /\ encoderOutput' = floatTo16BitPCM(encoderInput)
    /\ encoderDone' = TRUE
    /\ UNCHANGED <<encoderInput, wsVars, recorderVars, legacyVars, firebaseVars>>

EncoderNext == Convert

EncoderSpec == EncoderInit /\ [][EncoderNext]_vars

\* ======================================================================
\* The recorder
\* ======================================================================
\* ----------------------------------------------------- processAndSendChunks
\* The callback processAndSendChunks hands the packet to: onAudioData when
\* given, else onDataAvailable when given, else none.
SendEffects(packet) ==
    IF hasOnAudioData
    THEN <<PacketEffect("onAudioData", packet)>>
    ELSE IF hasOnDataAvailable
    THEN <<PacketEffect("onDataAvailable", packet)>>
    ELSE <<>>

\* Mutant of FlushEffects: the test for an empty buffer is forgotten.
FlushEffectsUnguarded(chunks) ==
    SendEffects(floatTo16BitPCM(Combine(chunks)))

\* processAndSendChunks, what it hands out: nothing when no chunk is
\* buffered, else the encoding of the combined chunks.
FlushEffects(chunks) ==
    IF Len(chunks) = 0
    THEN <<>>
    ELSE SendEffects(floatTo16BitPCM(Combine(chunks)))

\* Mutant of ChunksAfterFlush: the buffer is not cleared.
ChunksKeptAfterFlush(chunks) == chunks

\* processAndSendChunks, the buffer it leaves: audioChunksRef.current = [].
ChunksAfterFlush(chunks) == <<>>

\* Samples buffered by the hook or on their way to it.
PendingSamples ==
    TotalLength(audioChunksRef)
    + TotalLength([i \in DOMAIN inFlight |-> inFlight[i].data])

\* ------------------------------------------- requestPermission, startRecording
\* The component starts a recording, or asks for the microphone, only while
\* none is running or starting and the last one was stopped.
CallerStartsWhenStopped ==
    /\ recorderMounted
    /\ startPhase = "none"
    /\ audioContextRef = "null"
    /\ workletNodeRef = "null"
    /\ chunkIntervalRef = "null"

\* A ref is overwritten: what it held, when alive, is held by no ref now.
Lose(orph, kind, alive) ==
    IF alive THEN [orph EXCEPT ![kind] = @ + 1] ELSE orph

\* The body of requestPermission(), up to the await of getUserMedia.
RequestPermissionBody ==
    /\ startPhase' = "permissionOnly"
    /\ stoppedSinceStart' = "no"
    /\ effects' = <<>>
    /\ UNCHANGED <<recorderState, audioContextRef, workletNodeRef, streamRef,
                   audioChunksRef, chunkIntervalRef, isRecordingRef,
                   isPausedRef, processor, commands, inFlight,
                   hasOnAudioData, hasOnDataAvailable, recorderMounted,
                   orphaned, wsVars, encoderVars, legacyVars, firebaseVars>>

\* requestPermission() called by the component.
RequestPermission ==
    /\ CallerStartsWhenStopped
    /\ streamRef = "null"
    /\ RequestPermissionBody

\* The body of startRecording(), up to its first await: with a stream at
\* hand it creates the AudioContext, stores it in audioContextRef (the
\* context the ref held is not closed) and awaits addModule; else it awaits
\* requestPermission().  Nothing tests whether a recording is running.
StartRecordingBody ==
    /\ IF streamRef = "null"
       THEN /\ startPhase' = "permission"
            /\ UNCHANGED <<audioContextRef, orphaned>>
       ELSE /\ startPhase' = "module"
            /\ audioContextRef' = "open"
            /\ orphaned' = Lose(orphaned, "contexts", audioContextRef = "open")
    /\ stoppedSinceStart' = "no"
    /\ effects' = <<>>
    /\ UNCHANGED <<recorderState, workletNodeRef, streamRef, audioChunksRef,
                   chunkIntervalRef, isRecordingRef, isPausedRef, processor,
                   commands, inFlight, hasOnAudioData, hasOnDataAvailable,
                   recorderMounted, wsVars, encoderVars, legacyVars, firebaseVars>>

\* startRecording() called by the component.
StartRecording ==
    /\ CallerStartsWhenStopped
    /\ StartRecordingBody

\* Mutant of AfterDenial: the request is made again.
AfterDenialRetry(phase) == phase

\* Where the call stands after getUserMedia was rejected: requestPermission
\* rethrows, startRecording catches, and the call is over.
AfterDenial(phase) == "none"

\* getUserMedia settles.  Granted: requestPermission stores the stream (the
\* stream the ref held is not stopped) and startRecording, when it is the
\* caller, goes on to create the AudioContext and awaits addModule.  Denied:
\* requestPermission records the error and rethrows, and the catch of
\* startRecording records it again.
PermissionSettles(granted) ==
    /\ startPhase \in {"permission", "permissionOnly"}
    /\ IF granted
       THEN /\ streamRef' = "live"
            /\ recorderState' = [recorderState EXCEPT
                                   !.permissionGranted = "true",
                                   !.error = NoRecorderError]
            /\ IF startPhase = "permission"
               THEN /\ audioContextRef' = "open"
                    /\ orphaned' =
                          Lose(Lose(orphaned, "streams", streamRef = "live"),
                               "contexts", audioContextRef = "open")
                    /\ startPhase' = "module"
               ELSE /\ startPhase' = "none"
                    /\ orphaned' = Lose(orphaned, "streams",
                                        streamRef = "live")
                    /\ UNCHANGED audioContextRef
            /\ UNCHANGED <<isRecordingRef, isPausedRef>>
       ELSE /\ startPhase' = AfterDenial(startPhase)
            /\ IF startPhase = "permission"
               THEN /\ recorderState' = [recorderState EXCEPT
                                           !.permissionGranted = "false",
                                           !.error = ErrPermission,
                                           !.isRecording = FALSE]
                    /\ isRecordingRef' = FALSE
                    /\ isPausedRef' = FALSE
               ELSE /\ recorderState' = [recorderState EXCEPT
                                           !.permissionGranted = "false",
                                           !.error = ErrPermission]
                    /\ UNCHANGED <<isRecordingRef, isPausedRef>>
            /\ UNCHANGED <<streamRef, audioContextRef, orphaned>>
    /\ effects' = <<>>
    /\ UNCHANGED <<workletNodeRef, audioChunksRef, chunkIntervalRef,
                   processor, commands, inFlight, hasOnAudioData,
                   hasOnDataAvailable, recorderMounted, stoppedSinceStart,
                   wsVars, encoderVars, legacyVars, firebaseVars>>

\* addModule settles.  Resolved: the worklet node is created and wired, the
\* start command is posted, the flush timer is set and the hook records; the
\* node and the timer the refs held are neither disconnected nor cleared.
\* Rejected, or the node cannot be created (a browser may refuse to create
\* a node in a context closed in the meantime): the catch records the error.
ModuleSettles(ok) ==
    /\ startPhase \in {"module", "moduleClosed"}
    /\ startPhase' = "none"
    /\ IF ok
       THEN /\ workletNodeRef' = "node"
            /\ processor' = [exists |-> TRUE,
                             running |-> startPhase = "module",
                             hasInput |-> streamRef = "live",
                             isRecording |-> FALSE, isPaused |-> FALSE]
            /\ commands' = <<"start">>
            /\ chunkIntervalRef' = "set"
            /\ orphaned' =
                  Lose(Lose(orphaned, "nodes", workletNodeRef = "node"),
                       "intervals", chunkIntervalRef = "set")
            /\ isRecordingRef' = TRUE
            /\ isPausedRef' = FALSE
            /\ recorderState' = [recorderState EXCEPT
                                   !.isRecording = TRUE,
                                   !.isPaused = FALSE,
                                   !.error = NoRecorderError]
            /\ effects' = <<Effect("postStart"), Effect("setInterval")>>
       ELSE /\ recorderState' = [recorderState EXCEPT
                                   !.error = ErrStart,
                                   !.isRecording = FALSE]
            /\ isRecordingRef' = FALSE
            /\ isPausedRef' = FALSE
            /\ effects' = <<>>
            /\ UNCHANGED <<workletNodeRef, processor, commands,
                           chunkIntervalRef, orphaned>>
    /\ UNCHANGED <<audioContextRef, streamRef, audioChunksRef, inFlight,
                   hasOnAudioData, hasOnDataAvailable, recorderMounted,
                   stoppedSinceStart, wsVars, encoderVars, legacyVars, firebaseVars>>

\* ------------------------------------------------------------ stopRecording
\* Mutant of StopFlushEffects: stopRecording drops what is buffered.
StopFlushSkipped(chunks) == <<>>

\* if (audioChunksRef.current.length > 0) processAndSendChunks()
StopFlushEffects(chunks) ==
    IF Len(chunks) > 0 THEN FlushEffects(chunks) ELSE <<>>

\* What stopRecording does to the outside, in its order: the stop command,
\* clearInterval, the remaining chunks, node.disconnect(), context.close(),
\* track.stop().
StopEffects(node, interval, context, stream, chunks) ==
    (IF node = "node" THEN <<Effect("postStop")>> ELSE <<>>)
    \o (IF interval = "set" THEN <<Effect("clearInterval")>> ELSE <<>>)
    \o StopFlushEffects(chunks)
    \o (IF node = "node" THEN <<Effect("nodeDisconnect")>> ELSE <<>>)
    \o (IF context = "open" THEN <<Effect("contextClose")>> ELSE <<>>)
    \o (IF stream # "null" THEN <<Effect("tracksStop")>> ELSE <<>>)

\* stopRecording().  The processor and its port go with the context: what
\* it posted before stays in flight and is still delivered.  A
\* startRecording() that is suspended is not told.
StopRecording ==
    /\ recorderMounted
    /\ effects' = StopEffects(workletNodeRef, chunkIntervalRef,
                              audioContextRef, streamRef, audioChunksRef)
    /\ chunkIntervalRef' = "null"
    /\ audioChunksRef' = (IF Len(audioChunksRef) > 0
                          THEN ChunksAfterFlush(audioChunksRef)
                          ELSE audioChunksRef)
    /\ workletNodeRef' = "null"
    /\ audioContextRef' = "null"
    /\ streamRef' = "null"
    /\ processor' = NoProcessor
    /\ commands' = <<>>
    /\ startPhase' = (IF startPhase = "module" THEN "moduleClosed"
                                               ELSE startPhase)
    /\ stoppedSinceStart' =
          (IF startPhase \in {"permission", "module", "moduleClosed"}
           THEN "duringStart" ELSE "atRest")
    /\ isRecordingRef' = FALSE
    /\ isPausedRef' = FALSE
    /\ recorderState' = [recorderState EXCEPT !.isRecording = FALSE,
                                              !.isPaused = FALSE]
    /\ UNCHANGED <<inFlight, hasOnAudioData, hasOnDataAvailable,
                   recorderMounted, orphaned, wsVars, encoderVars, legacyVars, firebaseVars>>

\* ------------------------------------------- pauseRecording, resumeRecording
PauseRecording ==
    /\ recorderMounted
    /\ IF workletNodeRef = "node"
       THEN /\ Len(commands) < MaxCommands
            /\ commands' = Append(commands, "pause")
            /\ isPausedRef' = TRUE
            /\ recorderState' = [recorderState EXCEPT !.isPaused = TRUE]
            /\ effects' = <<Effect("postPause")>>
       ELSE /\ effects' = <<>>
            /\ UNCHANGED <<commands, isPausedRef, recorderState>>
    /\ UNCHANGED <<audioContextRef, workletNodeRef, streamRef, audioChunksRef,
                   chunkIntervalRef, isRecordingRef, startPhase, processor,
                   inFlight, hasOnAudioData, hasOnDataAvailable,
                   recorderMounted, orphaned, stoppedSinceStart,
                   wsVars, encoderVars, legacyVars, firebaseVars>>

ResumeRecording ==
    /\ recorderMounted
    /\ IF workletNodeRef = "node"
       THEN /\ Len(commands) < MaxCommands
            /\ commands' = Append(commands, "resume")
            /\ isPausedRef' = FALSE
            /\ recorderState' = [recorderState EXCEPT !.isPaused = FALSE]
            /\ effects' = <<Effect("postResume")>>
       ELSE /\ effects' = <<>>
            /\ UNCHANGED <<commands, isPausedRef, recorderState>>
    /\ UNCHANGED <<audioContextRef, workletNodeRef, streamRef, audioChunksRef,
                   chunkIntervalRef, isRecordingRef, startPhase, processor,
                   inFlight, hasOnAudioData, hasOnDataAvailable,
                   recorderMounted, orphaned, stoppedSinceStart,
                   wsVars, encoderVars, legacyVars, firebaseVars>>

\* ---------------------------------------------------------- the flush timer
\* An interval set by startRecording fires, the one chunkIntervalRef holds
\* or one it lost: processAndSendChunks.
IntervalTick ==
    /\ chunkIntervalRef = "set" \/ orphaned.intervals > 0
    /\ effects' = FlushEffects(audioChunksRef)
    /\ audioChunksRef' = (IF Len(audioChunksRef) = 0
                          THEN audioChunksRef
                          ELSE ChunksAfterFlush(audioChunksRef))
    /\ UNCHANGED <<recorderState, audioContextRef, workletNodeRef, streamRef,
                   chunkIntervalRef, isRecordingRef, isPausedRef, startPhase,
                   processor, commands, inFlight, hasOnAudioData,
                   hasOnDataAvailable, recorderMounted, orphaned,
                   stoppedSinceStart, wsVars, encoderVars, legacyVars, firebaseVars>>

\* -------------------------------------------------------------- the worklet
\* Mutant of ProcessorAfter: the pause command is not acted on.
ProcessorAfterPauseIgnored(proc, command) ==
    IF command = "start"
    THEN [proc EXCEPT !.isRecording = TRUE, !.isPaused = FALSE]
    ELSE IF command = "stop"
    THEN [proc EXCEPT !.isRecording = FALSE]
    ELSE IF command = "resume"
    THEN [proc EXCEPT !.isPaused = FALSE]
    ELSE proc

\* AudioRecorderProcessor, port.onmessage: one command is handled.
ProcessorAfter(proc, command) ==
    IF command = "start"
    THEN [proc EXCEPT !.isRecording = TRUE, !.isPaused = FALSE]
    ELSE IF command = "stop"
    THEN [proc EXCEPT !.isRecording = FALSE]
    ELSE IF command = "pause"
    THEN [proc EXCEPT !.isPaused = TRUE]
    ELSE IF command = "resume"
    THEN [proc EXCEPT !.isPaused = FALSE]
    ELSE proc

WorkletCommand ==
    /\ processor.exists
    /\ commands # <<>>
    /\ processor' = ProcessorAfter(processor, Head(commands))
    /\ commands' = Tail(commands)
    /\ effects' = <<>>
    /\ UNCHANGED <<recorderState, audioContextRef, workletNodeRef, streamRef,
                   audioChunksRef, chunkIntervalRef, isRecordingRef,
                   isPausedRef, startPhase, inFlight, hasOnAudioData,
                   hasOnDataAvailable, recorderMounted, orphaned,
                   stoppedSinceStart, wsVars, encoderVars, legacyVars, firebaseVars>>

\* What process() can be given as inputs[0][0]: audio while the source
\* stream is live, no channel after its track ended.
ProcessInputs(proc) ==
    IF proc.hasInput THEN Frames ELSE {NoInput}

\* Mutant of Slice: the input array itself is posted.
SliceShared(channelData) == [data |-> channelData, shared |-> TRUE]

\* channelData.slice(0): a new array holding the samples of the input; it
\* shares nothing with the buffer of the audio subsystem.
Slice(channelData) ==
    [data |-> [i \in 1..Len(channelData) |-> channelData[i]],
     shared |-> FALSE]

\* The audio subsystem reuses its input buffer for the next call of
\* process(): a frame that is that buffer now reads as the new input.
AfterReuse(frames, channelData) ==
    IF channelData = NoInput THEN frames
    ELSE [i \in DOMAIN frames |->
            IF frames[i].shared THEN [frames[i] EXCEPT !.data = channelData]
                                ELSE frames[i]]

\* if (this.isRecording && !this.isPaused && input && input[0])
ShouldPost(proc, channelData) ==
    proc.isRecording /\ ~proc.isPaused /\ channelData # NoInput

\* return true: the processor is kept alive.
ProcessReturns == TRUE

\* AudioRecorderProcessor.process() with the captured channel data: a copy
\* is posted while recording and not paused, when there is a channel.
WorkletProcess(channelData) ==
    /\ processor.exists
    /\ processor.running
    /\ channelData \in ProcessInputs(processor)
    /\ IF ShouldPost(processor, channelData)
       THEN /\ PendingSamples + Len(channelData) <= MaxSamples
            /\ inFlight' = Append(AfterReuse(inFlight, channelData),
                                  Slice(channelData))
       ELSE inFlight' = AfterReuse(inFlight, channelData)
    /\ processor' = [processor EXCEPT !.running = ProcessReturns]
    /\ effects' = <<>>
    /\ UNCHANGED <<recorderState, audioContextRef, workletNodeRef, streamRef,
                   audioChunksRef, chunkIntervalRef, isRecordingRef,
                   isPausedRef, startPhase, commands,
                   hasOnAudioData, hasOnDataAvailable, recorderMounted,
                   orphaned, stoppedSinceStart, wsVars, encoderVars, legacyVars, firebaseVars>>

\* workletNode.port.onmessage: a frame posted by the processor arrives and
\* new Float32Array(event.data.data) is pushed onto the buffer.
PortMessage ==
    /\ inFlight # <<>>
    /\ audioChunksRef' = Append(audioChunksRef, Head(inFlight).data)
    /\ inFlight' = Tail(inFlight)
    /\ effects' = <<>>
    /\ UNCHANGED <<recorderState, audioContextRef, workletNodeRef, streamRef,
                   chunkIntervalRef, isRecordingRef, isPausedRef, startPhase,
                   processor, commands, hasOnAudioData, hasOnDataAvailable,
                   recorderMounted, orphaned, stoppedSinceStart,
                   wsVars, encoderVars, legacyVars, firebaseVars>>

\* --------------------------------------------------------------- the device
\* The input device fails or is unplugged: the track of every stream taken
\* from it ends.  The hook registers no handler on the track (no onended),
\* on the stream or on the context, so no code of the hook runs.
DeviceFails ==
    /\ streamRef = "live" \/ orphaned.streams > 0
    /\ streamRef' = (IF streamRef = "live" THEN "ended" ELSE streamRef)
    /\ orphaned' = [orphaned EXCEPT !.streams = 0]
    /\ processor' = [processor EXCEPT !.hasInput = FALSE]
    /\ effects' = <<>>
    /\ UNCHANGED <<recorderState, audioContextRef, workletNodeRef,
                   audioChunksRef, chunkIntervalRef, isRecordingRef,
                   isPausedRef, startPhase, commands, inFlight,
                   hasOnAudioData, hasOnDataAvailable, recorderMounted,
                   stoppedSinceStart, wsVars, encoderVars, legacyVars, firebaseVars>>

\* ------------------------------------------------------------------ unmount
\* The cleanup of the effect: the timer is cleared, the node disconnected,
\* the context closed and the tracks stopped; no ref is reset and nothing
\* is flushed.
RecorderUnmount ==
    /\ recorderMounted
    /\ recorderMounted' = FALSE
    /\ effects' =
          (IF chunkIntervalRef = "set" THEN <<Effect("clearInterval")>>
                                       ELSE <<>>)
          \o (IF workletNodeRef = "node" THEN <<Effect("nodeDisconnect")>>
                                         ELSE <<>>)
          \o (IF audioContextRef = "open" THEN <<Effect("contextClose")>>
                                          ELSE <<>>)
          \o (IF streamRef # "null" THEN <<Effect("tracksStop")>> ELSE <<>>)
    /\ chunkIntervalRef' = (IF chunkIntervalRef = "set" THEN "cleared"
                                                        ELSE chunkIntervalRef)
    /\ audioContextRef' = (IF audioContextRef = "open" THEN "closed"
                                                       ELSE audioContextRef)
    /\ streamRef' = (IF streamRef # "null" THEN "stopped" ELSE streamRef)
    /\ processor' = NoProcessor
    /\ commands' = <<>>
    /\ startPhase' = (IF startPhase = "module" THEN "moduleClosed"
                                               ELSE startPhase)
    /\ UNCHANGED <<recorderState, workletNodeRef, audioChunksRef,
                   isRecordingRef, isPausedRef, inFlight, hasOnAudioData,
                   hasOnDataAvailable, orphaned, stoppedSinceStart,
                   wsVars, encoderVars, legacyVars, firebaseVars>>

RecorderSpecInit ==
    /\ \E audioData \in BOOLEAN, dataAvailable \in BOOLEAN :
          RecorderInit(audioData, dataAvailable)
    /\ TransportUnused
    /\ EncoderIdle
    /\ LegacyUnused
    /\ FirebaseUnused

\* What happens in the hook besides the calls that start something.
RecorderCalls ==
    \/ \E granted \in BOOLEAN : PermissionSettles(granted)
    \/ \E ok \in BOOLEAN : ModuleSettles(ok)
    \/ StopRecording
    \/ PauseRecording
    \/ ResumeRecording
    \/ IntervalTick
    \/ DeviceFails
    \/ RecorderUnmount

\* What happens in the worklet and on its port.
WorkletSteps ==
    \/ WorkletCommand
    \/ \E channelData \in Frames \cup {NoInput} :
          WorkletProcess(channelData)
    \/ PortMessage

RecorderNext ==
    \/ RequestPermission
    \/ StartRecording
    \/ RecorderCalls
    \/ WorkletSteps

RecorderSpec == RecorderSpecInit /\ [][RecorderNext]_vars

\* ======================================================================
\* The recorder with a component that calls startRecording() and
\* requestPermission() whenever no such call is suspended, also while a
\* recording runs.  This part follows what the hook holds and what it lost;
\* the audio (what the processors capture and post) is not followed.
\* ======================================================================
WithinOrphanBound ==
    \A kind \in DOMAIN orphaned : orphaned[kind] < MaxOrphaned

CallerStartsAnytime ==
    /\ recorderMounted
    /\ startPhase = "none"
    /\ WithinOrphanBound

RequestPermissionAnytime ==
    /\ CallerStartsAnytime
    /\ RequestPermissionBody

StartRecordingAnytime ==
    /\ CallerStartsAnytime
    /\ StartRecordingBody

RestartInit ==
    /\ RecorderInit(TRUE, FALSE)
    /\ TransportUnused
    /\ EncoderIdle
    /\ LegacyUnused
    /\ FirebaseUnused

RestartNext ==
    \/ RequestPermissionAnytime
    \/ StartRecordingAnytime
    \/ RecorderCalls
    \/ WorkletCommand

RestartSpec == RestartInit /\ [][RestartNext]_vars

\* ======================================================================
\* The MediaRecorder variant: requestPermission, startRecording, the events
\* of the MediaRecorder, stopRecording, pauseRecording, resumeRecording
\* ======================================================================
\* The component starts only a hook at rest: no start is suspended, no
\* recorder is active and no stop event is on its way.
LegacyAtRest ==
    /\ legacyMounted
    /\ legacyPhase = "none"
    /\ mediaRecorderRef.state = "inactive"
    /\ ~mediaRecorderRef.stopPending

\* catch (err) of startRecording: setState({ error, isRecording: false })
LegacyFailed(prev, message) ==
    [prev EXCEPT !.error = message, !.isRecording = FALSE]

\* startRecording() from the MediaRecorder test on, with a stream at hand and
\* prev the state left by the steps before: the state, the recorder in
\* mediaRecorderRef and the types queried that the call leaves.  The
\* constructor throws for a type that is not supported; start() throws for a
\* stream with no live track, the recorder being stored already.
LegacyStartOutcome(prev, stream) ==
    IF ~hasMediaRecorder
    THEN [state |-> LegacyFailed(prev, ErrNoMediaRecorder),
          recorder |-> mediaRecorderRef, queried |-> <<>>]
    ELSE LET supportedMimeType ==
                 FirstSupported(mimeTypesToTry, supportedTypes, mimeType)
             queried == Queried(mimeTypesToTry, supportedTypes)
         IN  IF supportedMimeType \notin supportedTypes
             THEN [state |-> LegacyFailed(prev, ErrTypeNotSupported),
                   recorder |-> mediaRecorderRef, queried |-> queried]
             ELSE IF stream # "live"
             THEN [state |-> LegacyFailed(prev, ErrCannotStart),
                   recorder |-> NewMediaRecorder(supportedMimeType),
                   queried |-> queried]
             ELSE [state |-> [prev EXCEPT !.isRecording = TRUE,
                                          !.isPaused = FALSE,
                                          !.error = NoRecorderError],
                   recorder |-> [NewMediaRecorder(supportedMimeType)
                                    EXCEPT !.state = "recording"],
                   queried |-> queried]

\* requestPermission() called by the component.
LegacyRequestPermission ==
    /\ LegacyAtRest
    /\ legacyStreamRef = "null"
    /\ legacyPhase' = "permissionOnly"
    /\ UNCHANGED <<legacyState, mediaRecorderRef, legacyStreamRef,
                   typesQueried, lastData, supportedTypes, mimeType,
                   hasMediaRecorder, legacyMounted, wsVars, encoderVars,
                   recorderVars, firebaseVars>>

\* startRecording(): without a stream it awaits requestPermission(), with
\* one it runs to its end.
LegacyStartRecording ==
    /\ LegacyAtRest
    /\ IF legacyStreamRef = "null"
       THEN /\ legacyPhase' = "permission"
            /\ typesQueried' = <<>>
            /\ UNCHANGED <<legacyState, mediaRecorderRef>>
       ELSE LET outcome == LegacyStartOutcome(legacyState, legacyStreamRef)
            IN  /\ legacyState' = outcome.state
                /\ mediaRecorderRef' = outcome.recorder
                /\ typesQueried' = outcome.queried
                /\ UNCHANGED legacyPhase
    /\ UNCHANGED <<legacyStreamRef, lastData, supportedTypes, mimeType,
                   hasMediaRecorder, legacyMounted, wsVars, encoderVars,
                   recorderVars, firebaseVars>>

\* getUserMedia settles.  Granted: the stream is stored, permissionGranted
\* is true, and a suspended startRecording() goes on.  Rejected:
\* requestPermission sets permissionGranted false and the message and
\* rethrows, and the catch of startRecording sets the message again.
LegacyPermissionSettles(granted) ==
    /\ legacyPhase \in {"permission", "permissionOnly"}
    /\ legacyPhase' = "none"
    /\ IF granted
       THEN LET prev == [legacyState EXCEPT !.permissionGranted = "true",
                                            !.error = NoRecorderError]
                outcome == LegacyStartOutcome(prev, "live")
            IN  /\ legacyStreamRef' = "live"
                /\ IF legacyPhase = "permission"
                   THEN /\ legacyState' = outcome.state
                        /\ mediaRecorderRef' = outcome.recorder
                        /\ typesQueried' = outcome.queried
                   ELSE /\ legacyState' = prev
                        /\ UNCHANGED <<mediaRecorderRef, typesQueried>>
       ELSE LET prev == [legacyState EXCEPT !.permissionGranted = "false",
                                            !.error = ErrPermission]
            IN  /\ legacyState' = (IF legacyPhase = "permission"
                                   THEN LegacyFailed(prev, ErrPermission)
                                   ELSE prev)
                /\ UNCHANGED <<legacyStreamRef, mediaRecorderRef,
                               typesQueried>>
    /\ UNCHANGED <<lastData, supportedTypes, mimeType, hasMediaRecorder,
                   legacyMounted, wsVars, encoderVars, recorderVars, firebaseVars>>

\* mediaRecorder.ondataavailable: a blob of positive size goes to
\* onDataAvailable.  The last one comes between the stop and its event.
MediaRecorderData(size) ==
    /\ mediaRecorderRef.exists
    /\ mediaRecorderRef.state = "recording" \/ mediaRecorderRef.stopPending
    /\ lastData' = (IF size > 0 THEN "delivered" ELSE "ignored")
    /\ UNCHANGED <<legacyState, mediaRecorderRef, legacyStreamRef,
                   legacyPhase, typesQueried, supportedTypes, mimeType,
                   hasMediaRecorder, legacyMounted, wsVars, encoderVars,
                   recorderVars, firebaseVars>>

\* mediaRecorder.onerror: the recorder failed and is inactive; the handler
\* sets the error and clears isRecording.  Its stop event follows.
MediaRecorderError ==
    /\ mediaRecorderRef.exists
    /\ mediaRecorderRef.state # "inactive"
    /\ mediaRecorderRef' = Inactivated(mediaRecorderRef)
    /\ legacyState' = [legacyState EXCEPT !.error = ErrRecording,
                                          !.isRecording = FALSE]
    /\ UNCHANGED <<legacyStreamRef, legacyPhase, typesQueried, lastData,
                   supportedTypes, mimeType, hasMediaRecorder, legacyMounted,
                   wsVars, encoderVars, recorderVars, firebaseVars>>

\* mediaRecorder.onstop: isRecording is cleared and the tracks of the stream
\* are stopped; streamRef keeps the stream.
MediaRecorderStop ==
    /\ mediaRecorderRef.stopPending
    /\ mediaRecorderRef' = [mediaRecorderRef EXCEPT !.stopPending = FALSE]
    /\ legacyState' = [legacyState EXCEPT !.isRecording = FALSE]
    /\ legacyStreamRef' = "stopped"
    /\ UNCHANGED <<legacyPhase, typesQueried, lastData, supportedTypes,
                   mimeType, hasMediaRecorder, legacyMounted, wsVars,
                   encoderVars, recorderVars, firebaseVars>>

\* The microphone is unplugged or fails: the track of the stream ends, and
\* a recorder whose tracks have all ended stops.
LegacyTrackEnds ==
    /\ legacyStreamRef = "live"
    /\ legacyStreamRef' = "ended"
    /\ mediaRecorderRef' = Inactivated(mediaRecorderRef)
    /\ UNCHANGED <<legacyState, legacyPhase, typesQueried, lastData,
                   supportedTypes, mimeType, hasMediaRecorder, legacyMounted,
                   wsVars, encoderVars, recorderVars, firebaseVars>>

\* stopRecording(): stops a recorder that is not inactive.
LegacyStopRecording ==
    /\ legacyMounted
    /\ mediaRecorderRef' = Inactivated(mediaRecorderRef)
    /\ UNCHANGED <<legacyState, legacyStreamRef, legacyPhase, typesQueried,
                   lastData, supportedTypes, mimeType, hasMediaRecorder,
                   legacyMounted, wsVars, encoderVars, recorderVars, firebaseVars>>

\* pauseRecording(): pauses a recorder that is recording.
LegacyPauseRecording ==
    /\ legacyMounted
    /\ IF mediaRecorderRef.exists /\ mediaRecorderRef.state = "recording"
       THEN /\ mediaRecorderRef' =
                   [mediaRecorderRef EXCEPT !.state = "paused"]
            /\ legacyState' = [legacyState EXCEPT !.isPaused = TRUE]
       ELSE UNCHANGED <<mediaRecorderRef, legacyState>>
    /\ UNCHANGED <<legacyStreamRef, legacyPhase, typesQueried, lastData,
                   supportedTypes, mimeType, hasMediaRecorder, legacyMounted,
                   wsVars, encoderVars, recorderVars, firebaseVars>>

\* resumeRecording(): resumes a recorder that is paused.
LegacyResumeRecording ==
    /\ legacyMounted
    /\ IF mediaRecorderRef.exists /\ mediaRecorderRef.state = "paused"
       THEN /\ mediaRecorderRef' =
                   [mediaRecorderRef EXCEPT !.state = "recording"]
            /\ legacyState' = [legacyState EXCEPT !.isPaused = FALSE]
       ELSE UNCHANGED <<mediaRecorderRef, legacyState>>
    /\ UNCHANGED <<legacyStreamRef, legacyPhase, typesQueried, lastData,
                   supportedTypes, mimeType, hasMediaRecorder, legacyMounted,
                   wsVars, encoderVars, recorderVars, firebaseVars>>

\* The cleanup of the effect: the recorder in the ref is stopped, the tracks
\* of the stream in the ref are stopped.
LegacyUnmount ==
    /\ legacyMounted
    /\ legacyMounted' = FALSE
    /\ mediaRecorderRef' = Inactivated(mediaRecorderRef)
    /\ legacyStreamRef' = (IF legacyStreamRef = "null" THEN "null"
                                                       ELSE "stopped")
    /\ UNCHANGED <<legacyState, legacyPhase, typesQueried, lastData,
                   supportedTypes, mimeType, hasMediaRecorder, wsVars,
                   encoderVars, recorderVars, firebaseVars>>

\* The platforms: with MediaRecorder defined it supports any set of types,
\* without it none.
LegacySpecInit ==
    /\ \E supported \in SUBSET PlatformTypes, option \in MimeTypeOptions,
          defined \in BOOLEAN :
          /\ defined \/ supported = {}
          /\ LegacyInit(supported, option, defined)
    /\ TransportUnused
    /\ EncoderIdle
    /\ RecorderUnused
    /\ FirebaseUnused

LegacyNext ==
    \/ LegacyRequestPermission
    \/ LegacyStartRecording
    \/ \E granted \in BOOLEAN : LegacyPermissionSettles(granted)
    \/ \E size \in 0..1 : MediaRecorderData(size)
    \/ MediaRecorderError
    \/ MediaRecorderStop
    \/ LegacyTrackEnds
    \/ LegacyStopRecording
    \/ LegacyPauseRecording
    \/ LegacyResumeRecording
    \/ LegacyUnmount

LegacySpec == LegacySpecInit /\ [][LegacyNext]_vars

\* ======================================================================
\* useFirebaseConnection: the callback of monitorConnection, the backoff
\* timer, manualReconnect, the cleanup
\* ======================================================================
\* What a handler of this hook does to the outside.
ConnectionEffect(kind, delay) == [kind |-> kind, delay |-> delay]

\* if (timer) clearTimeout(timer)
ClearEffects(timer) ==
    IF timer # "null" THEN <<ConnectionEffect("clearTimeout", 0)>> ELSE <<>>

\* if (onReconnectRef.current) onReconnectRef.current()
OnReconnectEffects ==
    IF hasOnReconnect THEN <<ConnectionEffect("onReconnect", 0)>> ELSE <<>>

\* monitorConnection reports connected: the state is set, and the timer of
\* the effect and the one of backoffTimerRef are cleared.
NotifyConnected ==
    /\ subscribed
    /\ connectionState' = [isConnected |-> TRUE, isReconnecting |-> FALSE,
                           reconnectAttempts |-> 0,
                           lastDisconnectTime |-> "null"]
    /\ timersPending' =
          ClearTimeout(backoffTimerRef,
                       ClearTimeout(reconnectTimer, timersPending))
    /\ reconnectTimer' = "null"
    /\ backoffTimerRef' = "null"
    /\ connectionEffects' =
          ClearEffects(reconnectTimer) \o ClearEffects(backoffTimerRef)
    /\ UNCHANGED <<hasOnReconnect, subscribed, wsVars, encoderVars,
                   recorderVars, legacyVars>>

\* monitorConnection reports disconnected at the time `now`: the updater
\* calls onReconnect, clears the timer of the effect, sets a new one with
\* the backoff delay of the attempts counted so far, and counts one more.
NotifyDisconnected(now) ==
    /\ subscribed
    /\ connectionState.reconnectAttempts < MaxAttempts
    /\ LET backoffDelay == BackoffDelay(connectionState.reconnectAttempts)
       IN  connectionEffects' =
              OnReconnectEffects
              \o ClearEffects(reconnectTimer)
              \o <<ConnectionEffect("setTimeout", backoffDelay)>>
    /\ timersPending' = ClearTimeout(reconnectTimer, timersPending) + 1
    /\ reconnectTimer' = "pending"
    /\ connectionState' =
          [connectionState EXCEPT
              !.isConnected = FALSE,
              !.isReconnecting = TRUE,
              !.reconnectAttempts = @ + 1,
              !.lastDisconnectTime = now]
    /\ UNCHANGED <<backoffTimerRef, hasOnReconnect, subscribed, wsVars,
                   encoderVars, recorderVars, legacyVars>>

\* A timer set by the disconnected branch fires: isReconnecting is cleared.
\* tracked tells whether it is the timer reconnectTimer holds.
BackoffTimerFires(tracked) ==
    /\ IF tracked
       THEN /\ reconnectTimer = "pending"
            /\ reconnectTimer' = "fired"
       ELSE /\ timersPending > (IF reconnectTimer = "pending" THEN 1 ELSE 0)
            /\ UNCHANGED reconnectTimer
    /\ timersPending' = timersPending - 1
    /\ connectionState' =
          [connectionState EXCEPT !.isReconnecting = FALSE]
    /\ connectionEffects' = <<>>
    /\ UNCHANGED <<backoffTimerRef, hasOnReconnect, subscribed, wsVars,
                   encoderVars, recorderVars, legacyVars>>

\* manualReconnect(): isReconnecting is set, the counter is reset and
\* onReconnect is called; no timer is set.
ManualReconnect ==
    /\ subscribed
    /\ connectionState' = [connectionState EXCEPT
                              !.isReconnecting = TRUE,
                              !.reconnectAttempts = 0]
    /\ connectionEffects' = OnReconnectEffects
    /\ UNCHANGED <<reconnectTimer, backoffTimerRef, timersPending,
                   hasOnReconnect, subscribed, wsVars, encoderVars,
                   recorderVars, legacyVars>>

\* The cleanup of the effect: unsubscribe(), and both timers are cleared.
FirebaseUnmount ==
    /\ subscribed
    /\ subscribed' = FALSE
    /\ timersPending' =
          ClearTimeout(backoffTimerRef,
                       ClearTimeout(reconnectTimer, timersPending))
    /\ reconnectTimer' = (IF reconnectTimer = "pending" THEN "cleared"
                                                        ELSE reconnectTimer)
    /\ connectionEffects' =
          ClearEffects(reconnectTimer) \o ClearEffects(backoffTimerRef)
    /\ UNCHANGED <<connectionState, backoffTimerRef, hasOnReconnect, wsVars,
                   encoderVars, recorderVars, legacyVars>>

FirebaseSpecInit ==
    /\ \E onReconnect \in BOOLEAN : FirebaseInit(onReconnect)
    /\ TransportUnused
    /\ EncoderIdle
    /\ RecorderUnused
    /\ LegacyUnused

FirebaseNext ==
    \/ NotifyConnected
    \/ \E now \in 1..MaxNow : NotifyDisconnected(now)
    \/ \E tracked \in BOOLEAN : BackoffTimerFires(tracked)
    \/ ManualReconnect
    \/ FirebaseUnmount

FirebaseSpec == FirebaseSpecInit /\ [][FirebaseNext]_vars

\* A pending timer fires: the platform runs every timeout that is not
\* cleared.
FirebaseLiveSpec ==
    FirebaseSpec /\ WF_vars(\E tracked \in BOOLEAN : BackoffTimerFires(tracked))

\* ======================================================================
\* A session: the recorder next to the transport
\* ======================================================================
\* The component holds both hooks: it records with onAudioData, and it
\* connects and disconnects the transport as it sees fit.
SessionInit ==
    /\ RecorderInit(TRUE, FALSE)
    /\ TransportUnused
    /\ EncoderIdle
    /\ LegacyUnused
    /\ FirebaseUnused

SessionNext ==
    \/ RecorderNext
    \/ Connect
    \/ \E target \in LiveSockets : SocketOpens(target)
    \/ Disconnect

SessionSpec == SessionInit /\ [][SessionNext]_vars

\* ======================================================================
\* Properties
\* ======================================================================
IsPrefix(a, b) == Len(a) <= Len(b) /\ SubSeq(b, 1, Len(a)) = a

\* Every socket the model holds, and what was transmitted on them.
AllSockets == {wsRef} \cup BagToSet(superseded)
AllLogs == { sock.sent : sock \in AllSockets }

IsCloseStep(ev) ==
    /\ UNCHANGED <<mounted, urlValid>>
    /\ \E target \in LiveSockets : SocketCloses(target, ev)
IsTimerStep ==
    /\ UNCHANGED <<reconnectAttemptsRef, mounted, urlValid>>
    /\ \E tracked \in BOOLEAN : ReconnectTimerFires(tracked)
IsMessageStep(data) ==
    /\ UNCHANGED <<wsRef, superseded, reconnectTimeoutRef, strayTimers,
                   reconnectAttemptsRef, mounted, urlValid>>
    /\ \E target \in LiveSockets : SocketMessage(target, data)
IsFinalEvent(data) ==
    data.parses /\ data.type = "transcription" /\ data.isFinal = "true"
IsInterimEvent(data) ==
    data.parses /\ data.type = "transcription" /\ data.isFinal # "true"

\* C1 (reconnect bound): every close with a non-normal code while fewer than
\* 5 attempts were made counts one more attempt (1, 2, .. 5) and schedules
\* one timer; the timer, when it fires with no open socket, runs the attempt
\* by creating a socket; a close with a non-normal code after the 5th attempt
\* schedules nothing, leaves the counter at 5 and sets error to 'Failed to
\* reconnect after multiple attempts'.
C1_ReconnectBound ==
    [][ /\ \A ev \in CloseEvents :
             (ev.code # 1000 /\ IsCloseStep(ev)) =>
                IF reconnectAttemptsRef < 5
                THEN /\ reconnectAttemptsRef' = reconnectAttemptsRef + 1
                     /\ reconnectAttemptsRef' \in 1..5
                     /\ PendingTimers' = PendingTimers + 1
                ELSE /\ reconnectAttemptsRef' = 5
                     /\ PendingTimers' = PendingTimers
                     /\ state'.error = ErrReconnectFailed
        /\ (IsTimerStep /\ ~CurrentIsOpen /\ urlValid) =>
               /\ wsRef' = NewSocket
               /\ PendingTimers' = PendingTimers - 1
      ]_vars

\* The connection failed six times in a row: the 5th attempt was made, its
\* socket closed, nothing is pending and the terminal error is shown.
C1_Witness ==
    /\ reconnectAttemptsRef = 5
    /\ wsRef = ClosedSocket
    /\ superseded = EmptyBag
    /\ PendingTimers = 0
    /\ reconnectTimeoutRef = "fired"
    /\ state.error = ErrReconnectFailed
    /\ ~state.isConnected

\* C2 (counter reset): the attempt counter is always within 0..5, and every
\* onopen sets it to 0.
C2_CounterReset ==
    /\ [](reconnectAttemptsRef \in 0..5)
    /\ [][ (\E target \in LiveSockets : SocketOpens(target)) =>
              reconnectAttemptsRef' = 0 ]_vars

\* A reconnect attempt was made (its timer fired), its socket opened and the
\* counter is back at 0.
C2_Witness ==
    /\ reconnectTimeoutRef = "fired"
    /\ CurrentIsOpen
    /\ superseded = EmptyBag
    /\ reconnectAttemptsRef = 0
    /\ state.isConnected

\* C3 (explicit disconnect is final): while the hook holds no socket (before
\* the first connect(), and after disconnect() until connect() is called
\* again) no reconnect timer is pending.
C3_DisconnectIsFinal ==
    wsRef = NullSocket => PendingTimers = 0

\* C4 (close-code rule): a close event with code 1000 schedules no timer and
\* leaves the counter alone; a close event with another code, while the
\* counter is below 5, schedules exactly one timer, whose handle is stored.
C4_CloseCodeRule ==
    [][ \A ev \in CloseEvents :
          IsCloseStep(ev) =>
             /\ ev.code = 1000 =>
                   /\ PendingTimers' = PendingTimers
                   /\ UNCHANGED <<reconnectTimeoutRef, reconnectAttemptsRef>>
             /\ (ev.code # 1000 /\ reconnectAttemptsRef < 5) =>
                   /\ PendingTimers' = PendingTimers + 1
                   /\ reconnectTimeoutRef' = "pending"
      ]_vars

\* An established connection was closed with the normal code: nothing was
\* scheduled.
C4_Witness ==
    /\ wsRef = ClosedSocket
    /\ superseded = EmptyBag
    /\ reconnectTimeoutRef = "null"
    /\ PendingTimers = 0
    /\ reconnectAttemptsRef = 0
    /\ state.error = NoError
    /\ state.finalTranscript # Empty

\* C5 (send while disconnected): sendAudio with a current socket that is not
\* open changes nothing at all; with an open socket it appends exactly its
\* packet to what that socket transmitted and changes nothing else; no other
\* operation ever adds an audio packet to a socket (nothing is queued).
C5_SendWhileDisconnected ==
    [][ /\ \A p \in Packets :
             SendAudio(p) =>
                IF wsRef.readyState = OPEN
                THEN /\ wsRef' = [wsRef EXCEPT !.sent = Append(@, AudioMsg(p))]
                     /\ UNCHANGED <<state, superseded, reconnectTimeoutRef,
                                    strayTimers, reconnectAttemptsRef>>
                ELSE UNCHANGED vars
        /\ (~ \E p \in Packets : SendAudio(p)) =>
               AllLogs' \subseteq
                  AllLogs \cup { Append(l, StopMsg) : l \in AllLogs }
                          \cup { <<>> }
      ]_vars

\* After a reconnect, sendAudio was called twice on the new socket: two
\* packets were transmitted on it.
C5_Witness ==
    /\ reconnectTimeoutRef = "fired"
    /\ wsRef.readyState = OPEN
    /\ wsRef.sent = <<AudioMsg("p1"), AudioMsg("p1")>>

\* C6 (stop on disconnect): disconnect() leaves the socket it held closing
\* with code 1000, having sent the stop message last when the socket was
\* open and nothing when it was not; on every socket the stop message occurs
\* at most once, as the last message, and only on a socket closed with 1000.
C6_StopOnDisconnect ==
    /\ [](\A sock \in AllSockets :
            /\ sock.closeCode \in {0, 1000}
            /\ sock.readyState = CLOSING => sock.closeCode = 1000
            /\ \A i \in DOMAIN sock.sent :
                  sock.sent[i] = StopMsg =>
                     /\ i = Len(sock.sent)
                     /\ sock.readyState = CLOSING
                     /\ sock.closeCode = 1000)
    /\ [][ ((Disconnect \/ Unmount) /\ IsLive(wsRef)) =>
              /\ wsRef' = NullSocket
              /\ superseded' = superseded (+) SetToBag({
                    [wsRef EXCEPT
                       !.readyState = CLOSING,
                       !.closeCode = 1000,
                       !.sent = IF wsRef.readyState = OPEN
                                THEN Append(@, StopMsg) ELSE @] })
         ]_vars

\* An open socket that had transmitted a packet was disconnected.
C6_Witness ==
    /\ wsRef = NullSocket
    /\ \E sock \in BagToSet(superseded) :
          /\ sock.sent = <<AudioMsg("p1"), StopMsg>>
          /\ sock.readyState = CLOSING

C8_InterimEvent ==
    [][ \A data \in InboundData :
          (IsInterimEvent(data) /\ IsMessageStep(data)) =>
             /\ state'.interimTranscript =
                   (IF data.transcript.present THEN data.transcript.value
                                               ELSE <<>>)
             /\ state'.finalTranscript = state.finalTranscript
             /\ state'.isConnected = state.isConnected
             /\ state'.error = state.error
      ]_vars

\* An interim text is shown after a settled one, with an error displayed.
C8_Witness ==
    /\ state.interimTranscript = <<"Hello">>
    /\ state.finalTranscript = <<"Hello", " ">>
    /\ state.error = <<"quota">>
    /\ state.isConnected

\* C9 (settled text is monotonic): in every step other than
\* clearTranscripts() the old finalTranscript is a prefix of the new one.
C9_SettledMonotonic ==
    [][ ClearTranscripts
        \/ IsPrefix(state.finalTranscript, state'.finalTranscript) ]_vars

\* Two final events were settled and an interim one came after them.
C9_Witness ==
    /\ Len(state.finalTranscript) = 4
    /\ state.interimTranscript # <<>>

\* C10 (reconnection never erases the transcript): a step that changes
\* finalTranscript or interimTranscript is the delivery of a transcription
\* message or clearTranscripts().
C10_TranscriptFrame ==
    [][ (\/ state'.finalTranscript # state.finalTranscript
         \/ state'.interimTranscript # state.interimTranscript) =>
           \/ ClearTranscripts
           \/ \E data \in InboundData :
                 data.type = "transcription" /\ IsMessageStep(data)
      ]_vars

\* The transcript is still there after the socket it came from dropped, the
\* reconnect timer fired and the new socket has not opened yet.
C10_Witness ==
    /\ reconnectTimeoutRef = "fired"
    /\ wsRef = NewSocket
    /\ superseded = EmptyBag
    /\ ~state.isConnected
    /\ state.finalTranscript = <<"Hello", " ">>
    /\ state.interimTranscript = <<"Hello">>

IsErrorEvent(data) == data.parses /\ data.type = "error"

\* Inbound data that cannot be parsed, or that parses to a value with no
\* known type.
IsMalformed(data) ==
    ~data.parses \/ data.type \notin {"transcription", "error"}

\* C11 (error event): a message of type 'error' sets error to the message's
\* text, or to 'Unknown error' when it has none (absent or the empty string),
\* and leaves finalTranscript, interimTranscript and isConnected unchanged;
\* the sockets, the reconnect timers and the attempt counter are unchanged,
\* so the socket stays open and no reconnect is scheduled.
C11_ErrorEvent ==
    [][ \A data \in InboundData :
          (IsErrorEvent(data) /\ IsMessageStep(data)) =>
             /\ state'.error =
                   (IF data.message.present /\ data.message.value # <<>>
                    THEN data.message.value
                    ELSE <<"Unknown error">>)
             /\ state'.finalTranscript = state.finalTranscript
             /\ state'.interimTranscript = state.interimTranscript
             /\ state'.isConnected = state.isConnected
             /\ wsRef' = wsRef
             /\ superseded' = superseded
             /\ PendingTimers' = PendingTimers
             /\ reconnectTimeoutRef' = reconnectTimeoutRef
             /\ reconnectAttemptsRef' = reconnectAttemptsRef
      ]_vars

\* An error message without a text arrived on the open socket after a text
\* was settled and while a preview was shown: the hook is still connected
\* and nothing is scheduled.
C11_Witness ==
    /\ state.error = ErrUnknown
    /\ state.isConnected
    /\ CurrentIsOpen
    /\ PendingTimers = 0
    /\ state.finalTranscript = <<"Hello", " ">>
    /\ state.interimTranscript = <<"Hello">>

\* C12 (clearTranscripts): clearTranscripts() makes finalTranscript and
\* interimTranscript empty, leaves isConnected, error, the sockets, the
\* attempt counter and the reconnect timers unchanged, and clearing a
\* cleared state changes nothing.
C12_ClearTranscripts ==
    /\ [][ ClearTranscripts =>
              /\ state'.finalTranscript = <<>>
              /\ state'.interimTranscript = <<>>
              /\ state'.isConnected = state.isConnected
              /\ state'.error = state.error
              /\ ClearState(state') = state'
              /\ UNCHANGED <<wsRef, superseded, reconnectTimeoutRef,
                             strayTimers, reconnectAttemptsRef>>
         ]_vars
    /\ [](ClearState(ClearState(state)) = ClearState(state))

\* A state clearTranscripts() acts on: both texts are there, an error is
\* displayed, the connection dropped and a reconnect timer is pending.
C12_Witness ==
    /\ mounted
    /\ state.finalTranscript # <<>>
    /\ state.interimTranscript # <<>>
    /\ state.error = <<"quota">>
    /\ reconnectTimeoutRef = "pending"
    /\ reconnectAttemptsRef = 1

\* C13 (malformed messages are absorbed): a message that cannot be parsed, or
\* that has no known type, changes nothing: not the hook state, not the
\* sockets, not the timers, not the counter; and the hook handles whatever
\* comes after it exactly as it would have without it.
C13_MalformedAbsorbed ==
    /\ [](\A data \in InboundData :
            IsMalformed(data) =>
               /\ OnMessageState(state, data) = state
               /\ \A later \in InboundData :
                     OnMessageState(OnMessageState(state, data), later)
                        = OnMessageState(state, later))
    /\ [][ \A data \in InboundData :
             (IsMalformed(data) /\ IsMessageStep(data)) => UNCHANGED vars
         ]_vars

\* A state a malformed message is delivered in: the current socket is open
\* and has transmitted a packet, both texts are there and no error is shown.
C13_Witness ==
    /\ CurrentIsOpen
    /\ state.isConnected
    /\ state.error = NoError
    /\ state.finalTranscript = <<"Hello", " ">>
    /\ state.interimTranscript = <<"Hello">>
    /\ wsRef.sent = <<AudioMsg("p1")>>

\* C19 (quantization): the output of floatTo16BitPCM has the length of its
\* input, and element i comes from element i: within -32768..32767; 32767
\* for 1.0 and for every input above, -32768 for -1.0 and for every input
\* below, 0 for 0; for an input s strictly between -1 and 0 the integer part
\* of s * 32768, and for s between 0 and 1 the integer part of s * 32767.
C19_Quantization ==
    encoderDone =>
       /\ Len(encoderOutput) = Len(encoderInput)
       /\ \A i \in 1..Len(encoderInput) :
             LET s == encoderInput[i]
                 q == encoderOutput[i]
             IN  /\ q \in -32768..32767
                 /\ s >= SampleUnit => q = 32767
                 /\ s <= -SampleUnit => q = -32768
                 /\ s = 0 => q = 0
                 /\ (-SampleUnit < s /\ s < 0) =>
                       /\ q <= 0
                       /\ (-s) * 32768 - (-q) * SampleUnit
                             \in 0..(SampleUnit - 1)
                 /\ (0 <= s /\ s < SampleUnit) =>
                       /\ q >= 0
                       /\ s * 32767 - q * SampleUnit
                             \in 0..(SampleUnit - 1)

\* An input above 1 and an input below -1 were encoded, in this order.
C19_Witness ==
    /\ encoderDone
    /\ encoderInput = <<2 * SampleUnit, -SampleUnit - 1>>
    /\ encoderOutput = <<32767, -32768>>

\* The distance between the sample s and the decoded integer q, in units of
\* 1/SampleUnit, when q is decoded as q / 32768.
DecodeError(s, q) ==
    LET d == s - q * (SampleUnit \div 32768)
    IN  IF d >= 0 THEN d ELSE -d

\* The distance between s and q decoded by the inverse of the encoder's
\* scaling (q / 32768 below 0, q / 32767 from 0 on) is at most 1/32768.
InverseDecodeWithinBound(s, q) ==
    IF q < 0
    THEN DecodeError(s, q) <= SampleUnit \div 32768
    ELSE LET d == s * 32767 - q * SampleUnit
         IN  (IF d >= 0 THEN d ELSE -d) <= 32767 * (SampleUnit \div 32768)

\* C20 (round-trip bound): for every input sample s within [-1, 1], the
\* encoded integer decoded back to a float (by q / 32768, or by the inverse
\* of the encoder's scaling) differs from s by at most 1/32768.
C20_RoundTripBound ==
    encoderDone =>
       \A i \in 1..Len(encoderInput) :
          LET s == encoderInput[i]
              q == encoderOutput[i]
          IN  (-SampleUnit <= s /\ s <= SampleUnit) =>
                 \/ DecodeError(s, q) <= SampleUnit \div 32768
                 \/ InverseDecodeWithinBound(s, q)

\* ------------------------------------------------- the recorder's flushes
IsPacket(effect) == effect.kind \in {"onAudioData", "onDataAvailable"}

\* The packets a handler handed to a callback, in order.
PacketsOf(effs) == SelectSeq(effs, IsPacket)

HasCallback == hasOnAudioData \/ hasOnDataAvailable

\* A step of processAndSendChunks: the flush timer, or stopRecording.
IsFlushStep ==
    /\ UNCHANGED <<inFlight, hasOnAudioData, hasOnDataAvailable>>
    /\ IntervalTick \/ StopRecording

\* Samples in the first n frames.
SamplesBefore(chunks, n) == TotalLength(SubSeq(chunks, 1, n))

\* The packet is the frames laid end to end and encoded sample by sample:
\* as many samples as the frames have together, and sample j of frame k at
\* the place after all samples of the frames before k and the samples
\* before j of frame k.
IsEncodingOf(packet, chunks) ==
    /\ Len(packet) = SamplesBefore(chunks, Len(chunks))
    /\ \A k \in 1..Len(chunks) :
          \A j \in 1..Len(chunks[k]) :
             packet[SamplesBefore(chunks, k - 1) + j] =
                (IF chunks[k][j] = SampleUnit THEN 32767 ELSE -32768)

\* C14 (packet completeness): every packet a flush hands to a callback is
\* the encoding of the frames that were buffered, in arrival order: its
\* length is the sum of the frame lengths, and no sample is missing,
\* repeated or moved.
C14_PacketCompleteness ==
    [][ (audioChunksRef # <<>> /\ IsFlushStep) =>
           \A i \in 1..Len(effects') :
              IsPacket(effects'[i]) =>
                 IsEncodingOf(effects'[i].data, audioChunksRef)
      ]_vars

\* The flush timer handed out a packet of three samples: it was made of
\* more than one frame, and the frames were not all alike.
C14_Witness ==
    /\ effects = <<PacketEffect("onAudioData", <<32767, -32768, -32768>>)>>
    /\ audioChunksRef = <<>>
    /\ chunkIntervalRef = "set"

\* C15 (no empty packets): a flush, by the timer or by stopRecording, with
\* nothing buffered hands no packet to a callback; and no packet handed to
\* a callback is ever empty.
C15_NoEmptyPackets ==
    /\ [][ (audioChunksRef = <<>> /\ IsFlushStep) =>
              PacketsOf(effects') = <<>> ]_vars
    /\ [](\A i \in 1..Len(effects) :
            IsPacket(effects[i]) => Len(effects[i].data) >= 1)

\* stopRecording ran on a recording with nothing buffered: the graph was
\* torn down and no packet was handed out.
C15_Witness ==
    /\ effects = <<Effect("postStop"), Effect("clearInterval"),
                   Effect("nodeDisconnect"), Effect("contextClose"),
                   Effect("tracksStop")>>
    /\ HasCallback
    /\ audioChunksRef = <<>>

\* C16 (one send per flush, no carry-over): a flush of a buffer that is not
\* empty leaves the buffer empty and, when a callback is given, invokes it
\* exactly once; frames leave the buffer only by a flush, all at once, and
\* enter it only at its end.
C16_OneSendPerFlush ==
    /\ [][ (audioChunksRef # <<>> /\ IsFlushStep) =>
              /\ audioChunksRef' = <<>>
              /\ HasCallback => Len(PacketsOf(effects')) = 1
         ]_vars
    /\ [][ \/ audioChunksRef' = audioChunksRef
           \/ audioChunksRef' = <<>> /\ IsFlushStep
           \/ /\ Len(audioChunksRef') = Len(audioChunksRef) + 1
              /\ SubSeq(audioChunksRef', 1, Len(audioChunksRef))
                    = audioChunksRef
              /\ PacketsOf(effects') = <<>>
         ]_vars

\* The flush timer handed a packet to onDataAvailable while the next frame
\* was on its way: the buffer is empty and the recording goes on.
C16_Witness ==
    /\ Len(PacketsOf(effects)) = 1
    /\ effects[1].kind = "onDataAvailable"
    /\ audioChunksRef = <<>>
    /\ inFlight # <<>>
    /\ chunkIntervalRef = "set"
    /\ recorderState.isRecording

\* C17 (stop drains the buffer): stopRecording() with frames buffered, and a
\* callback given, hands out exactly one packet, which is not empty and is
\* the encoding of all the buffered frames, and leaves the buffer empty.
C17_StopDrains ==
    [][ (audioChunksRef # <<>> /\ HasCallback
           /\ UNCHANGED <<inFlight, hasOnAudioData, hasOnDataAvailable>>
           /\ StopRecording) =>
           /\ Len(PacketsOf(effects')) = 1
           /\ Len(PacketsOf(effects')[1].data) >= 1
           /\ IsEncodingOf(PacketsOf(effects')[1].data, audioChunksRef)
           /\ audioChunksRef' = <<>>
      ]_vars

\* stopRecording ran on a recording with two frames buffered: the packet
\* went out between clearInterval and the teardown.
C17_Witness ==
    /\ effects = <<Effect("postStop"), Effect("clearInterval"),
                   PacketEffect("onAudioData", <<-32768, 32767, 32767>>),
                   Effect("nodeDisconnect"), Effect("contextClose"),
                   Effect("tracksStop")>>
    /\ audioChunksRef = <<>>
    /\ ~recorderState.isRecording

\* The place of the first effect of a kind among the effects, 0 when there
\* is none.
RECURSIVE PlaceOf(_, _)
PlaceOf(effs, kind) ==
    IF effs = <<>> THEN 0
    ELSE IF Head(effs).kind = kind THEN 1
    ELSE LET rest == PlaceOf(Tail(effs), kind)
         IN  IF rest = 0 THEN 0 ELSE rest + 1

\* Both effects occur, the first before the second; or one of them does not
\* occur.
InOrder(effs, first, second) ==
    (PlaceOf(effs, first) # 0 /\ PlaceOf(effs, second) # 0)
       => PlaceOf(effs, first) < PlaceOf(effs, second)

\* C18 (shutdown order): a session is stopped in the order (1) stop command
\* to the worklet and clearInterval, (2) the final packet, (3) the stop
\* message when the connection is open, (4) release of the device stream.
\* So: within stopRecording the stop command and clearInterval come before
\* the packet and the packet before the teardown of the graph and of the
\* tracks; stopRecording does not release the device stream of a running
\* recording while the connection is open and its stop message is still to
\* be sent; and disconnect() does not send the stop message while the flush
\* timer still runs or frames are buffered.
C18_ShutdownOrder ==
    /\ [][ StopRecording =>
              /\ InOrder(effects', "postStop", "onAudioData")
              /\ InOrder(effects', "clearInterval", "onAudioData")
              /\ InOrder(effects', "onAudioData", "nodeDisconnect")
              /\ InOrder(effects', "onAudioData", "contextClose")
              /\ InOrder(effects', "onAudioData", "tracksStop")
              /\ ~(recorderState.isRecording /\ streamRef = "live"
                     /\ CurrentIsOpen)
         ]_vars
    /\ [][ (Disconnect /\ CurrentIsOpen) =>
              /\ chunkIntervalRef # "set"
              /\ audioChunksRef = <<>>
         ]_vars

\* The sockets created by the hook that are connecting or open: each of them
\* has the handlers of connect() attached and delivers its events into the
\* hook state.
IsActive(sock) == sock.readyState \in {CONNECTING, OPEN}

ActiveCount ==
    (IF IsActive(wsRef) THEN 1 ELSE 0)
    + BagCardinality([sock \in { x \in BagToSet(superseded) : IsActive(x) }
                         |-> CopiesIn(sock, superseded)])

\* C25 (single connection): in every reachable state at most one socket
\* created by the hook is connecting or open; connect() with an open socket
\* changes nothing; connect() while the current socket is connecting, or
\* while a reconnect timer is pending, leaves at most one such socket.
C25_SingleConnection ==
    /\ [](ActiveCount <= 1)
    /\ [][ (Connect /\ CurrentIsOpen) => UNCHANGED wsVars ]_vars
    /\ [][ (Connect /\ (wsRef.readyState = CONNECTING \/ PendingTimers > 0))
              => ActiveCount' <= 1 ]_vars

\* The attempt bound is exhausted: five attempts were counted, a close event
\* found none left and reported it.
Exhausted ==
    /\ reconnectAttemptsRef >= MAX_RECONNECT_ATTEMPTS
    /\ state.error = ErrReconnectFailed

\* C26 (failed is terminal until a manual reconnect): once the attempt bound
\* is exhausted no reconnect timer creates a socket; connect() called by the
\* component in that state creates one; and when a socket then opens the
\* hook is connected, the counter is 0 and error is null.
C26_FailedIsTerminal ==
    /\ [][ (Exhausted /\ IsTimerStep) => UNCHANGED <<wsRef, superseded>> ]_vars
    /\ [][ (Exhausted /\ Connect /\ urlValid /\ ~CurrentIsOpen)
              => wsRef' = NewSocket ]_vars
    /\ [][ (Exhausted /\ \E target \in LiveSockets : SocketOpens(target))
              => /\ state'.isConnected
                 /\ reconnectAttemptsRef' = 0
                 /\ state'.error = NoError ]_vars

\* The error texts set for a connection that failed or was lost: by onerror
\* and by onclose.
ConnectionErrors == {ErrConnection, ErrReconnectFailed}

\* C27 (transient connection errors stay invisible): a close event with a
\* code other than 1000, with or without a connection failure before it,
\* leaves the error field as it is while the counter is below 5; and the
\* error field takes the text of a failed or lost connection only in a step
\* that finds the counter at 5.
C27_TransientErrorsInvisible ==
    /\ [][ \A ev \in CloseEvents :
              (ev.code # NORMAL_CLOSURE /\ reconnectAttemptsRef < 5
                 /\ IsCloseStep(ev))
                 => state'.error = state.error ]_vars
    /\ [][ (state'.error # state.error /\ state'.error \in ConnectionErrors)
              => reconnectAttemptsRef >= 5 ]_vars

\* The error texts an inbound error event surfaces.
InboundErrors ==
    { ErrorText(m) : m \in {Absent} \cup { Present(x) : x \in ErrorTexts } }

\* A step of the transport itself: a socket opens, fails or closes, or
\* connect() or disconnect() runs (called by the component, by a reconnect
\* timer or by the cleanup on unmount).
IsTransportStep ==
    \/ \E target \in LiveSockets : SocketOpens(target)
    \/ \E target \in LiveSockets : \E ev \in CloseEvents :
          SocketCloses(target, ev)
    \/ Connect
    \/ \E tracked \in BOOLEAN : ReconnectTimerFires(tracked)
    \/ Disconnect
    \/ Unmount

\* C28 (connection status and transcript-error state are independent): a
\* step of the transport changes neither transcript and, when error holds a
\* text surfaced by an inbound error event, leaves error as it is; an inbound
\* error event leaves isConnected as it is.
C28_StatusErrorIndependent ==
    /\ [][ IsTransportStep =>
              /\ state'.finalTranscript = state.finalTranscript
              /\ state'.interimTranscript = state.interimTranscript
              /\ state.error \in InboundErrors => state'.error = state.error
         ]_vars
    /\ [][ \A data \in InboundData :
              (IsErrorEvent(data) /\ IsMessageStep(data))
                 => state'.isConnected = state.isConnected ]_vars

\* What is alive of each kind: what the ref holds and what the refs lost.
ContextsOpen ==
    (IF audioContextRef = "open" THEN 1 ELSE 0) + orphaned.contexts
NodesConnected ==
    (IF workletNodeRef = "node" /\ recorderMounted THEN 1 ELSE 0)
    + orphaned.nodes
IntervalsRunning ==
    (IF chunkIntervalRef = "set" THEN 1 ELSE 0) + orphaned.intervals
StreamsLive ==
    (IF streamRef = "live" THEN 1 ELSE 0) + orphaned.streams

\* C21 (start is idempotent while running): startRecording() called while
\* the hook records creates nothing and leaves no call suspended; at any
\* time at most one audio context is open, one worklet node connected and
\* one flush timer running; and a startRecording() waits for a stream only
\* when the hook holds none.
C21_StartIdempotent ==
    /\ [][ (recorderState.isRecording /\ StartRecordingAnytime)
              => UNCHANGED <<audioContextRef, startPhase, orphaned>> ]_vars
    /\ [](ContextsOpen <= 1 /\ NodesConnected <= 1 /\ IntervalsRunning <= 1)
    /\ [][ (startPhase = "permission" /\ PermissionSettles(TRUE))
              => streamRef = "null" ]_vars

\* A step of the worklet that handles this command.
IsCommandStep(command) ==
    /\ commands # <<>>
    /\ Head(commands) = command
    /\ WorkletCommand

\* C22 (pause / resume): pauseRecording() on a running recording posts the
\* pause command and nothing else: the stream, the audio graph and the flush
\* timer stay as they are, no permission request is started, isPaused is
\* true and isRecording stays true.  Once the worklet has handled the
\* command it is paused, it posts no frame while it is paused, and it stays
\* paused until it handles a resume command (or is torn down).
\* resumeRecording() likewise only posts the resume command and sets
\* isPaused to false; once the worklet has handled it, it is not paused and
\* a process() call with audio of the same stream posts a frame again.
C22_PauseResume ==
    /\ [][ (workletNodeRef = "node" /\ PauseRecording) =>
              /\ effects' = <<Effect("postPause")>>
              /\ UNCHANGED <<audioContextRef, workletNodeRef, streamRef,
                             chunkIntervalRef, startPhase, processor,
                             audioChunksRef, inFlight>>
              /\ recorderState.isRecording
              /\ recorderState' = [recorderState EXCEPT !.isPaused = TRUE]
         ]_vars
    /\ [][ (workletNodeRef = "node" /\ ResumeRecording) =>
              /\ effects' = <<Effect("postResume")>>
              /\ UNCHANGED <<audioContextRef, workletNodeRef, streamRef,
                             chunkIntervalRef, startPhase, processor,
                             audioChunksRef, inFlight>>
              /\ recorderState.isRecording
              /\ recorderState' = [recorderState EXCEPT !.isPaused = FALSE]
         ]_vars
    /\ [][ IsCommandStep("pause") => processor'.isPaused ]_vars
    /\ [][ IsCommandStep("resume") =>
              /\ ~processor'.isPaused
              /\ processor'.isRecording = processor.isRecording
              /\ processor'.hasInput = processor.hasInput ]_vars
    /\ [][ processor.isPaused => Len(inFlight') <= Len(inFlight) ]_vars
    /\ [][ (processor.isPaused /\ processor'.exists /\ ~processor'.isPaused)
              => IsCommandStep("resume") ]_vars
    /\ [][ \A channelData \in Frames :
              (processor.isRecording /\ ~processor.isPaused
                 /\ WorkletProcess(channelData))
                 => /\ Len(inFlight') = Len(inFlight) + 1
                    /\ inFlight'[Len(inFlight')].data = channelData ]_vars

\* pauseRecording() and then resumeRecording() were called on a running
\* recording: the worklet has handled the pause, but not yet the resume, and
\* a frame it posted before is still on its way.
C22_Witness ==
    /\ recorderState.isRecording
    /\ ~recorderState.isPaused
    /\ processor.isRecording
    /\ processor.isPaused
    /\ commands = <<"resume">>
    /\ effects = <<Effect("postResume")>>
    /\ inFlight # <<>>
    /\ streamRef = "live"
    /\ chunkIntervalRef = "set"

\* The hook holds no stream, no audio graph and no flush timer, and neither
\* flag is set.
RecorderStopped ==
    /\ streamRef = "null"
    /\ workletNodeRef = "null"
    /\ audioContextRef = "null"
    /\ chunkIntervalRef = "null"
    /\ ~recorderState.isRecording
    /\ ~recorderState.isPaused

\* C23 (stop is terminal and releases the device): stopRecording() stops the
\* tracks of the stream the hook holds and leaves the hook stopped;
\* pauseRecording() and resumeRecording() on a stopped hook post nothing and
\* change nothing; and a stopped hook stays stopped until startRecording()
\* is called again: a startRecording() that was called before the stop and
\* is still suspended starts nothing.
C23_StopIsTerminal ==
    /\ [][ StopRecording =>
              /\ RecorderStopped'
              /\ streamRef # "null" =>
                    effects'[Len(effects')] = Effect("tracksStop")
         ]_vars
    /\ [][ (RecorderStopped /\ (PauseRecording \/ ResumeRecording)) =>
              /\ effects' = <<>>
              /\ UNCHANGED <<recorderState, audioContextRef, workletNodeRef,
                             streamRef, chunkIntervalRef, isRecordingRef,
                             isPausedRef, processor, commands, inFlight>>
         ]_vars
    /\ [][ (RecorderStopped /\ stoppedSinceStart = "duringStart")
              => RecorderStopped' ]_vars

\* C24 (permission denied): when getUserMedia is rejected, permissionGranted
\* becomes false and error the failure message; no stream is stored; a
\* startRecording() that was waiting for it ends with isRecording false and
\* both refs false, the hook holds no audio context, no worklet node and no
\* flush timer and nothing was posted or set; and the call is over: no
\* permission request is pending after it.
C24_PermissionDenied ==
    [][ PermissionSettles(FALSE) =>
           /\ recorderState'.permissionGranted = "false"
           /\ recorderState'.error = ErrPermission
           /\ recorderState'.isPaused = recorderState.isPaused
           /\ startPhase' = "none"
           /\ effects' = <<>>
           /\ UNCHANGED <<streamRef, audioContextRef, workletNodeRef,
                          chunkIntervalRef, processor, commands, orphaned>>
           /\ startPhase = "permission" =>
                 /\ ~recorderState'.isRecording
                 /\ ~isRecordingRef' /\ ~isPausedRef'
                 /\ streamRef' = "null"
                 /\ audioContextRef' = "null"
                 /\ workletNodeRef' = "null"
                 /\ chunkIntervalRef' = "null"
           /\ startPhase = "permissionOnly" =>
                 recorderState'.isRecording = recorderState.isRecording
      ]_vars

\* startRecording() was called, the microphone was refused, and the call is
\* over: the error is shown and nothing was created.
C24_Witness ==
    /\ recorderState.permissionGranted = "false"
    /\ recorderState.error = ErrPermission
    /\ ~recorderState.isRecording
    /\ startPhase = "none"
    /\ streamRef = "null"
    /\ audioContextRef = "null"
    /\ workletNodeRef = "null"
    /\ chunkIntervalRef = "null"
    /\ recorderMounted

\* C29 (device unavailable): when the input device fails during a recording
\* the recorder leaves the recording state and reports an error; it is never
\* recording without an error while the track of its stream has ended; and
\* the failure starts no new permission request.
C29_DeviceUnavailable ==
    /\ [][ (recorderState.isRecording /\ DeviceFails) =>
              /\ ~recorderState'.isRecording
              /\ recorderState'.error # NoRecorderError
         ]_vars
    /\ [](~(recorderState.isRecording
              /\ recorderState.error = NoRecorderError
              /\ streamRef = "ended"))
    /\ [][ DeviceFails => UNCHANGED startPhase ]_vars

\* ----------------------------------------------------------------------
\* C30 (configuration fallback in priority order): a startRecording() of the
\* MediaRecorder variant that reaches the selection gives the constructor
\* the first entry of [webm+opus, ogg+opus, webm, ogg] that the platform
\* supports, whatever the set of supported types; only when no entry is
\* supported does it take the caller's mimeType; and the failure of an
\* unsupported type is surfaced (error set, isRecording false) only after
\* every entry of the list was asked for and none was supported.
\* ----------------------------------------------------------------------
ListedTypes == { mimeTypesToTry[i] : i \in DOMAIN mimeTypesToTry }

IsFirstSupportedEntry(type) ==
    \E i \in DOMAIN mimeTypesToTry :
        /\ mimeTypesToTry[i] = type
        /\ type \in supportedTypes
        /\ \A j \in 1..(i - 1) : mimeTypesToTry[j] \notin supportedTypes

\* A step in which startRecording() runs its selection.
LegacySelects ==
    /\ hasMediaRecorder
    /\ \/ LegacyStartRecording /\ legacyStreamRef # "null"
       \/ LegacyPermissionSettles(TRUE) /\ legacyPhase = "permission"

FrameData(frames) == [i \in DOMAIN frames |-> frames[i].data]

C31_WorkletEmissionGuard ==
    /\ [][ (inFlight' # inFlight /\ commands' = commands
              /\ audioChunksRef' = audioChunksRef) =>
              \A channelData \in Frames \cup {NoInput} :
                 WorkletProcess(channelData) =>
                    /\ processor.isRecording /\ ~processor.isPaused
                    /\ channelData # NoInput
                    /\ FrameData(inFlight') =
                          Append(FrameData(inFlight), channelData)
                    /\ processor'.exists /\ processor'.running
                    /\ processor'.isRecording = processor.isRecording
                    /\ processor'.isPaused = processor.isPaused ]_vars
    /\ [][ (inFlight' = inFlight /\ processor.isRecording
              /\ ~processor.isPaused) =>
              \A channelData \in Frames : ~WorkletProcess(channelData) ]_vars
    /\ [][ IsCommandStep("start") =>
              processor'.isRecording /\ ~processor'.isPaused ]_vars
    /\ [][ IsCommandStep("stop") =>
              /\ ~processor'.isRecording
              /\ processor'.isPaused = processor.isPaused ]_vars
    /\ [][ IsCommandStep("pause") =>
              /\ processor'.isPaused
              /\ processor'.isRecording = processor.isRecording ]_vars
    /\ [][ IsCommandStep("resume") =>
              /\ ~processor'.isPaused
              /\ processor'.isRecording = processor.isRecording ]_vars
    /\ [][ PortMessage =>
              /\ audioChunksRef' =
                    Append(audioChunksRef, FrameData(inFlight)[1])
              /\ FrameData(inFlight') = Tail(FrameData(inFlight)) ]_vars

\* Two frames with different samples are on their way to the hook, posted by
\* two calls of process() of a processor that is still recording.
C31_Witness ==
    /\ Len(inFlight) = 2
    /\ inFlight[1].data # inFlight[2].data
    /\ processor.isRecording
    /\ ~processor.isPaused
    /\ processor.running

\* ----------------------------------------------------------------------
\* C32 (isConnected tracks the current socket): in every reachable state
\* isConnected = true implies that the socket wsRef holds is open; when no
\* other socket has an event to deliver, an open socket in wsRef implies
\* isConnected = true; and no event of a socket that wsRef does not hold
\* (superseded by a later connect(), or dropped by disconnect()) changes
\* isConnected.
\* ----------------------------------------------------------------------
IsSupersededEvent ==
    \E target \in LiveSockets :
        /\ target[1] = "superseded"
        /\ \/ SocketOpens(target)
           \/ \E ev \in CloseEvents : SocketCloses(target, ev)

C32_IsConnectedTracksCurrent ==
    /\ [](state.isConnected => CurrentIsOpen)
    /\ []((CurrentIsOpen /\ superseded = EmptyBag) => state.isConnected)
    /\ [][ IsSupersededEvent =>
              state'.isConnected = state.isConnected ]_vars

\* ----------------------------------------------------------------------
\* C33 (at most one reconnect timer): in every reachable state at most one
\* reconnect timer is pending, the pending timer is the one
\* reconnectTimeoutRef records (so that disconnect() can cancel it), and no
\* reconnect timer is pending while the socket wsRef holds is open.
\* ----------------------------------------------------------------------
C33_AtMostOneReconnectTimer ==
    /\ [](PendingTimers <= 1)
    /\ [](strayTimers = 0)
    /\ [](CurrentIsOpen => PendingTimers = 0)

\* ----------------------------------------------------------------------
\* C34 (no packets after stop): once stopRecording() has returned and until
\* startRecording() is called again, no step other than a further
\* stopRecording() hands a packet to onAudioData or onDataAvailable, and no
\* flush timer is running, neither the one chunkIntervalRef holds nor one it
\* lost.
\* ----------------------------------------------------------------------
C34_NoPacketsAfterStop ==
    /\ [][ (stoppedSinceStart # "no" /\ stoppedSinceStart' # "no"
              /\ ~StopRecording) =>
              PacketsOf(effects') = <<>> ]_vars
    /\ [](stoppedSinceStart # "no" =>
             chunkIntervalRef = "null" /\ orphaned.intervals = 0)

\* ----------------------------------------------------------------------
\* C35 (no stale audio across sessions): whenever no recording is active
\* (the hook holds no worklet node and no start is under way) the frame
\* buffer is empty, also after frames that the worklet posted before it
\* handled 'stop' were delivered; so a step that makes isRecording true
\* starts with an empty buffer.
\* ----------------------------------------------------------------------
C35_NoStaleAudio ==
    /\ []((workletNodeRef = "null" /\ startPhase = "none") =>
             audioChunksRef = <<>>)
    /\ [][ (~recorderState.isRecording /\ recorderState'.isRecording) =>
              audioChunksRef' = <<>> ]_vars

\* ----------------------------------------------------------------------
\* C36 (recorder state invariant): in every reachable state of the
\* AudioWorklet recorder isPaused = true implies isRecording = true, the
\* state flags equal isRecordingRef and isPausedRef, and isRecording = true
\* implies that the hook holds a worklet node, an audio context, a device
\* stream and a flush timer.
\* ----------------------------------------------------------------------
C36_RecorderStateInvariant ==
    /\ [](recorderState.isPaused => recorderState.isRecording)
    /\ [](recorderState.isRecording = isRecordingRef)
    /\ [](recorderState.isPaused = isPausedRef)
    /\ [](recorderState.isRecording =>
             /\ workletNodeRef = "node"
             /\ audioContextRef = "open"
             /\ streamRef # "null"
             /\ chunkIntervalRef = "set")

\* ----------------------------------------------------------------------
\* C37 (stop during an in-progress start): when stopRecording() ran while a
\* startRecording() was suspended, waiting for the permission or for the
\* worklet module, and that startRecording() has completed too, the
\* recorder is stopped: isRecording is false, no flush timer is running and
\* the hook holds no audio context and no device stream.
\* ----------------------------------------------------------------------
C37_StopDuringStart ==
    []((stoppedSinceStart = "duringStart" /\ startPhase = "none") =>
          /\ ~recorderState.isRecording
          /\ chunkIntervalRef = "null"
          /\ orphaned.intervals = 0
          /\ audioContextRef = "null"
          /\ streamRef = "null")

\* ----------------------------------------------------------------------
\* C38 (Firebase hook, connected): every connected notification sets the
\* state to isConnected = true, isReconnecting = false, reconnectAttempts =
\* 0, lastDisconnectTime = null and clears the pending backoff timer, so
\* that no timer is pending, and none fires, while the hook is connected;
\* and at most one backoff timer is pending at any time, the one the hook
\* holds.
\* ----------------------------------------------------------------------
C38_FirebaseConnected ==
    /\ [][ NotifyConnected =>
              /\ connectionState' =
                    [isConnected |-> TRUE, isReconnecting |-> FALSE,
                     reconnectAttempts |-> 0, lastDisconnectTime |-> "null"]
              /\ timersPending' = 0
              /\ reconnectTimer' = "null"
              /\ reconnectTimer = "pending" =>
                    connectionEffects' = <<ConnectionEffect("clearTimeout", 0)>>
         ]_vars
    /\ [](connectionState.isConnected => timersPending = 0)
    /\ [][ (\E tracked \in BOOLEAN : BackoffTimerFires(tracked)) =>
              ~connectionState.isConnected ]_vars
    /\ [](timersPending <= 1)
    /\ [](timersPending = 1 => reconnectTimer = "pending")

\* The hook was told of a reconnection while its backoff timer was pending:
\* the timer was cleared and the state is the connected one.
C38_Witness ==
    /\ connectionState.isConnected
    /\ connectionEffects = <<ConnectionEffect("clearTimeout", 0)>>
    /\ reconnectTimer = "null"
    /\ timersPending = 0
    /\ subscribed

\* ----------------------------------------------------------------------
\* C39 (Firebase hook, disconnected): every disconnected notification sets
\* isConnected = false and isReconnecting = true, adds exactly 1 to
\* reconnectAttempts, records the time, calls onReconnect (when it is
\* given) once, and sets one timer with the delay min(1000 * 2^n, 30000) ms,
\* n being reconnectAttempts before the step: 1000, 2000, 4000, 8000, 16000,
\* then 30000; when that timer fires, isReconnecting becomes false and the
\* other fields keep their values.
\* ----------------------------------------------------------------------
DelayTable == <<1000, 2000, 4000, 8000, 16000>>

ExpectedDelay(n) == IF n + 1 \in DOMAIN DelayTable THEN DelayTable[n + 1]
                                                      ELSE 30000

IsSetTimeout(effect) == effect.kind = "setTimeout"

IsOnReconnect(effect) == effect.kind = "onReconnect"

C39_FirebaseDisconnected ==
    /\ [][ \A now \in 1..MaxNow :
              NotifyDisconnected(now) =>
                 /\ connectionState' =
                       [isConnected |-> FALSE, isReconnecting |-> TRUE,
                        reconnectAttempts |->
                           connectionState.reconnectAttempts + 1,
                        lastDisconnectTime |-> now]
                 /\ SelectSeq(connectionEffects', IsSetTimeout) =
                       <<ConnectionEffect(
                            "setTimeout",
                            ExpectedDelay(connectionState.reconnectAttempts))>>
                 /\ Len(SelectSeq(connectionEffects', IsOnReconnect)) =
                       (IF hasOnReconnect THEN 1 ELSE 0)
                 /\ reconnectTimer' = "pending"
                 /\ timersPending' = 1 ]_vars
    /\ [][ (\E tracked \in BOOLEAN : BackoffTimerFires(tracked)) =>
              connectionState' =
                 [connectionState EXCEPT !.isReconnecting = FALSE] ]_vars

\* The sixth disconnection in a row was reported: the delay of its timer is
\* the cap, and onReconnect was called before the timer was set.
C39_Witness ==
    /\ connectionState.reconnectAttempts = 6
    /\ ~connectionState.isConnected
    /\ connectionState.isReconnecting
    /\ connectionEffects = <<ConnectionEffect("onReconnect", 0),
                             ConnectionEffect("clearTimeout", 0),
                             ConnectionEffect("setTimeout", 30000)>>

\* ----------------------------------------------------------------------
\* C40 (Firebase hook invariant): in every reachable state, whatever the
\* connected and disconnected notifications, timer firings and
\* manualReconnect() calls were, isConnected = true implies isReconnecting =
\* false and reconnectAttempts = 0; and isReconnecting = true is always
\* followed by a state in which it is false, a mounted hook being given its
\* timers.
\* ----------------------------------------------------------------------
C40_FirebaseInvariant ==
    /\ [](connectionState.isConnected =>
             /\ ~connectionState.isReconnecting
             /\ connectionState.reconnectAttempts = 0)
    /\ (connectionState.isReconnecting /\ subscribed)
          ~> (~connectionState.isReconnecting \/ ~subscribed)

====
